---- MODULE Spec2Model ----
(***************************************************************************)
(* Model of the kbsearch MCP tool adapters: the two-phase CI/CD query      *)
(* protocol (query_cicd_prepare / query_cicd_execute, tools/cicd_query.py) *)
(* and the retrieval adapter (search_knowledge_base / submit_feedback,     *)
(* tools/rag_search.py).                                                   *)
(*                                                                         *)
(* Representation.                                                         *)
(*  - A Python dict is a TLA+ function whose DOMAIN is the set of keys     *)
(*    present; d.get(k, default) is Get(d, k, default).                    *)
(*  - Python's None is the value None below.                               *)
(*  - A Python list is a sequence.                                         *)
(*  - A multi-line text is the sequence of its lines (the text is the      *)
(*    lines joined by a newline).                                          *)
(*  - One tool invocation is one action.  The backend's behaviour for the  *)
(*    invocation's HTTP request is an input of the action: either the      *)
(*    exception requests.post raises, or the HTTP response it returns.     *)
(***************************************************************************)
EXTENDS Integers, Sequences, FiniteSets, TLC

VARIABLES
    last,       \* the last completed tool invocation: tool, args, backend, sent, result
    issued,     \* cache keys handed out so far in ACTION_REQUIRED directives (history)
    nCalls,     \* SpecCount: number of invocations so far
    execCalls,  \* SpecCount: (sql, cache_key) -> number of query_cicd_execute invocations
    execReqs,   \* SpecCount: (sql, cache_key) -> number of execute requests sent to the backend
    hit,        \* SpecShape: the backend response both phases are run against
    prepOut,    \* SpecShape: what query_cicd_prepare returned for hit
    execOut,    \* SpecShape: what query_cicd_execute returned for hit
    calls,      \* SpecConcurrent: the frame of each invocation in flight
    boot,       \* SpecStartup: the starting process
    uiOut       \* SpecRich: what the rich-UI query_cicd_execute returned for hit

vars == <<last, issued, nCalls, execCalls, execReqs, hit, prepOut, execOut, calls, boot, uiOut>>

----------------------------------------------------------------------------
(* Bounds of the model *)

MaxCalls == 3
MaxRows == 2
MaxChunks == 2
\* rows of a result list of the shape specification
MaxShapeRows == 3
\* invocations in flight at once in the concurrent specification
MaxInvocations == 2

----------------------------------------------------------------------------
(* Python values *)

None == "<None>"

Get(d, k, default) == IF k \in DOMAIN d THEN d[k] ELSE default

\* str(v) of a string-or-None value, as an f-string interpolates it
PyStr(v) == IF v = None THEN "None" ELSE v

\* the empty dict
EmptyDict == [k \in {} |-> None]

RECURSIVE SumOver(_, _, _)
\* sum(r.get(key, 0) for r in results)
SumOver(results, key, i) ==
    IF i > Len(results) THEN 0
    ELSE Get(results[i], key, 0) + SumOver(results, key, i + 1)

RECURSIVE CountEqOrMissing(_, _, _, _)
\* mutant: a row without the key counts as a match
CountEqOrMissing(results, key, value, i) ==
    IF i > Len(results) THEN 0
    ELSE (IF Get(results[i], key, value) = value THEN 1 ELSE 0)
         + CountEqOrMissing(results, key, value, i + 1)

RECURSIVE CountEq(_, _, _, _)
\* sum(1 for r in results if r.get(key) == value)
CountEq(results, key, value, i) ==
    IF i > Len(results) THEN 0
    ELSE (IF Get(results[i], key, None) = value THEN 1 ELSE 0)
         + CountEq(results, key, value, i + 1)

RECURSIVE Concat(_)
\* the concatenation of a sequence of sequences
Concat(ss) == IF ss = <<>> THEN <<>> ELSE Head(ss) \o Concat(Tail(ss))

\* mutant: the rate is cut off after the first decimal
RoundTenthsDown(num, den) == (1000 * num) \div den

\* round(100 * num / den, 1) in tenths of a percent, den > 0: Python rounds the
\* float to the nearest tenth, an exact tie (x.x5, a dyadic value) to the even one
RoundTenths(num, den) ==
    LET q == (1000 * num) \div den
        r == (1000 * num) % den
    IN  IF 2 * r > den THEN q + 1
        ELSE IF 2 * r < den THEN q
        ELSE IF q % 2 = 0 THEN q ELSE q + 1

\* mutant: the rate is printed without its decimal
TenthsStrWhole(t) == ToString(t \div 10)

\* str() of a float given in tenths: 500 -> "50.0"
TenthsStr(t) == ToString(t \div 10) \o "." \o ToString(t % 10)

----------------------------------------------------------------------------
(* Import-time configuration (defaults) *)

NL2SQL_PREPARE_URL == "http://localhost:8088/prepare"
NL2SQL_EXECUTE_URL == "http://localhost:8088/execute"
NL2SQL_TIMEOUT == 30
USER_ID == "unknown"
RAG_URL == "http://localhost:8000/query"
RAG_TIMEOUT == 30
\* RAG_URL.replace('/query', '/feedback')
FEEDBACK_URL == "http://localhost:8000/feedback"

----------------------------------------------------------------------------
(* The requests library: exception classes and responses *)

\* the classes an exception is an instance of (its class and all its bases)
Ancestors(exc) ==
    CASE exc = "ConnectTimeout" ->
            {"ConnectTimeout", "ConnectionError", "Timeout", "RequestException", "Exception"}
      [] exc = "ReadTimeout" -> {"ReadTimeout", "Timeout", "RequestException", "Exception"}
      [] exc = "ConnectionError" -> {"ConnectionError", "RequestException", "Exception"}
      [] exc = "HTTPError" -> {"HTTPError", "RequestException", "Exception"}
      [] exc = "TooManyRedirects" -> {"TooManyRedirects", "RequestException", "Exception"}
      [] exc = "KeyError" -> {"KeyError", "LookupError", "Exception"}
      [] OTHER -> {exc, "Exception"}

RECURSIVE FirstMatch(_, _, _)
FirstMatch(excepts, exc, i) ==
    IF i > Len(excepts) THEN "uncaught"
    ELSE IF excepts[i] \in Ancestors(exc) THEN excepts[i]
    ELSE FirstMatch(excepts, exc, i + 1)

\* the except clause that handles exc: the first one, in source order, whose class
\* exc is an instance of; "uncaught" when there is none
Clause(excepts, exc) == FirstMatch(excepts, exc, 1)

\* resp.raise_for_status() raises HTTPError for 4xx and 5xx
RaisesForStatus(code) == 400 <= code /\ code < 600

\* bool(response): Response.__bool__ is Response.ok, false exactly when
\* raise_for_status() would raise
ResponseTruthy(code) == ~RaisesForStatus(code)

\* what requests.post(...) followed by resp.raise_for_status() raises for backend
\* behaviour b, "none" when the call goes through
Thrown(b) ==
    IF b.kind = "raise" THEN b.exc
    ELSE IF RaisesForStatus(b.code) THEN "HTTPError"
    ELSE "none"

\* str(e) of a transport exception
ExcStr(exc) == "<" \o exc \o ">"

Return(v) == [kind |-> "return", value |-> v]
Raise(exc) == [kind |-> "raise", exc |-> exc]

----------------------------------------------------------------------------
(* tools/cicd_query.py: summarising and formatting a result list.          *)
(* Non-ASCII glyphs of the source are written in ASCII: the check mark is  *)
(* "(v)", the cross is "(x)".                                              *)

PASS_GLYPH == "(v)"
FAIL_GLYPH == "(x)"

\* keys whose values are numbers; every other key holds a string
IntKeys == {"tests_passed", "tests_failed", "tests_skipped", "test_duration_seconds", "count"}

\* the order in which a row's items are enumerated: a row keeps the backend's
\* column order, which is the same for every row of one result list
Columns == <<"app_name", "app_version", "deploy_env", "deploy_result", "date",
             "deployed_by", "test_type", "tests_passed", "tests_failed",
             "tests_skipped", "test_duration_seconds", "count">>

\* str(value) of the value stored under key
ValueStr(key, value) == IF key \in IntKeys THEN ToString(value) ELSE PyStr(value)

\* str(d)[:16] for the date strings of the model
Prefix16(d) ==
    CASE d = "2024-01-15T10:30:00" -> "2024-01-15T10:30"
      [] d = "2024-01-16T08:05:59" -> "2024-01-16T08:05"
      [] OTHER -> d

\* str(r.get('date', 'N/A'))[:16] if r.get('date') else 'N/A'
DateStr(r) ==
    LET d == Get(r, "date", None)
    IN  IF d = None \/ d = "" THEN "N/A" ELSE Prefix16(d)

\* mutant: every list, the empty one included, gets the generic summary
AddSummaryStatsGeneric(results) == [type |-> "generic", row_count |-> Len(results)]

\* mutant: the shape is taken from the last row instead of the first, and the
\* test keys are looked for before deploy_result
AddSummaryStatsByLastRow(results) ==
    IF results = <<>> THEN EmptyDict
    ELSE
    LET last_row == results[Len(results)] IN
    IF "tests_passed" \in DOMAIN last_row \/ "test_type" \in DOMAIN last_row THEN
        LET total_passed == SumOver(results, "tests_passed", 1)
            total_failed == SumOver(results, "tests_failed", 1)
            total_tests == total_passed + total_failed
            pass_rate == IF total_tests > 0 THEN TenthsStr(RoundTenths(total_passed, total_tests))
                         ELSE "0"
        IN  [type |-> "test",
             test_runs |-> Len(results),
             total_tests |-> total_tests,
             passed |-> total_passed,
             failed |-> total_failed,
             pass_rate |-> pass_rate \o "%"]
    ELSE IF "deploy_result" \in DOMAIN last_row THEN
        LET total == Len(results)
            successes == CountEq(results, "deploy_result", "SUCCESS", 1)
            failures == CountEq(results, "deploy_result", "FAILURE", 1)
        IN  [type |-> "deployment",
             total |-> total,
             successes |-> successes,
             failures |-> failures,
             success_rate |-> TenthsStr(RoundTenths(successes, total)) \o "%"]
    ELSE [type |-> "generic", row_count |-> Len(results)]

AddSummaryStats(results) ==
    IF results = <<>> THEN EmptyDict
    ELSE
    LET first_row == results[1] IN
    IF "deploy_result" \in DOMAIN first_row THEN
        LET total == Len(results)
            successes == CountEq(results, "deploy_result", "SUCCESS", 1)
            failures == CountEq(results, "deploy_result", "FAILURE", 1)
            success_rate == IF total > 0 THEN TenthsStr(RoundTenths(successes, total))
                            ELSE "0"
        IN  [type |-> "deployment",
             total |-> total,
             successes |-> successes,
             failures |-> failures,
             success_rate |-> success_rate \o "%"]
    ELSE IF "tests_passed" \in DOMAIN first_row \/ "test_type" \in DOMAIN first_row THEN
        LET total_passed == SumOver(results, "tests_passed", 1)
            total_failed == SumOver(results, "tests_failed", 1)
            total_tests == total_passed + total_failed
            pass_rate == IF total_tests > 0 THEN TenthsStr(RoundTenths(total_passed, total_tests))
                         ELSE "0"
        IN  [type |-> "test",
             test_runs |-> Len(results),
             total_tests |-> total_tests,
             passed |-> total_passed,
             failed |-> total_failed,
             pass_rate |-> pass_rate \o "%"]
    ELSE [type |-> "generic", row_count |-> Len(results)]

\* mutant: the cross is shown for "FAILURE" only, the check mark otherwise
DeploymentEntryLenient(i, r) ==
    LET result_icon == IF Get(r, "deploy_result", None) = "FAILURE"
                       THEN FAIL_GLYPH ELSE PASS_GLYPH
    IN  << ToString(i) \o ". **" \o Get(r, "app_name", "N/A") \o "** "
                \o Get(r, "app_version", "N/A"),
           "   - Environment: " \o Get(r, "deploy_env", "N/A"),
           "   - Result: " \o result_icon \o " " \o Get(r, "deploy_result", "N/A"),
           "   - Date: " \o DateStr(r),
           "   - Deployed by: " \o Get(r, "deployed_by", "N/A"),
           "" >>

\* the lines of one deployment entry
DeploymentEntry(i, r) ==
    LET result_icon == IF Get(r, "deploy_result", None) = "SUCCESS"
                       THEN PASS_GLYPH ELSE FAIL_GLYPH
    IN  << ToString(i) \o ". **" \o Get(r, "app_name", "N/A") \o "** "
                \o Get(r, "app_version", "N/A"),
           "   - Environment: " \o Get(r, "deploy_env", "N/A"),
           "   - Result: " \o result_icon \o " " \o Get(r, "deploy_result", "N/A"),
           "   - Date: " \o DateStr(r),
           "   - Deployed by: " \o Get(r, "deployed_by", "N/A"),
           "" >>

\* the lines of one test entry
TestEntry(i, r) ==
    LET duration == Get(r, "test_duration_seconds", 0)
        duration_str == IF duration # 0 THEN ToString(duration) \o "s" ELSE "N/A"
        has_failures == Get(r, "tests_failed", 0) > 0
        result_icon == IF has_failures THEN FAIL_GLYPH ELSE PASS_GLYPH
    IN  << ToString(i) \o ". **" \o Get(r, "app_name", "N/A") \o "** "
                \o Get(r, "app_version", "N/A"),
           "   - Test Type: " \o Get(r, "test_type", "N/A"),
           "   - Results: " \o result_icon \o " "
                \o ToString(Get(r, "tests_passed", 0)) \o " passed, "
                \o ToString(Get(r, "tests_failed", 0)) \o " failed, "
                \o ToString(Get(r, "tests_skipped", 0)) \o " skipped",
           "   - Duration: " \o duration_str,
           "   - Date: " \o DateStr(r),
           "" >>

\* the lines of one generic entry: one line per item of the row
GenericEntry(i, r) ==
    LET present == SelectSeq(Columns, LAMBDA k : k \in DOMAIN r)
    IN  << ToString(i) \o ". Result:" >>
        \o [j \in 1..Len(present) |->
                "   - " \o present[j] \o ": " \o ValueStr(present[j], r[present[j]])]
        \o << "" >>

\* mutant: the entries are emitted newest row first, entry i describing the
\* i-th row from the end
FormatNewestFirst(results, summary) ==
    IF results = <<>> THEN << "No results found." >>
    ELSE
    LET result_type == Get(summary, "type", "generic")
        n == Len(results)
    IN
    IF result_type = "deployment" THEN
        << "**Found " \o ToString(summary["total"]) \o " deployments: "
              \o ToString(summary["successes"]) \o " successful, "
              \o ToString(summary["failures"]) \o " failed ("
              \o summary["success_rate"] \o " success rate)**",
           "" >>
        \o Concat([i \in 1..n |-> DeploymentEntry(i, results[n + 1 - i])])
    ELSE IF result_type = "test" THEN
        << "**Found " \o ToString(summary["test_runs"]) \o " test runs: "
              \o ToString(summary["total_tests"]) \o " total tests, "
              \o ToString(summary["passed"]) \o " passed, "
              \o ToString(summary["failed"]) \o " failed ("
              \o summary["pass_rate"] \o " pass rate)**",
           "" >>
        \o Concat([i \in 1..n |-> TestEntry(i, results[n + 1 - i])])
    ELSE
        << "**Found " \o ToString(Get(summary, "row_count", n)) \o " results**",
           "" >>
        \o Concat([i \in 1..n |-> GenericEntry(i, results[n + 1 - i])])

\* the lines of the formatted text ("\n".join(lines), a header's trailing "\n"
\* being the empty line after it)
FormatAsReadableList(results, summary) ==
    IF results = <<>> THEN << "No results found." >>
    ELSE
    LET result_type == Get(summary, "type", "generic") IN
    IF result_type = "deployment" THEN
        << "**Found " \o ToString(summary["total"]) \o " deployments: "
              \o ToString(summary["successes"]) \o " successful, "
              \o ToString(summary["failures"]) \o " failed ("
              \o summary["success_rate"] \o " success rate)**",
           "" >>
        \o Concat([i \in 1..Len(results) |-> DeploymentEntry(i, results[i])])
    ELSE IF result_type = "test" THEN
        << "**Found " \o ToString(summary["test_runs"]) \o " test runs: "
              \o ToString(summary["total_tests"]) \o " total tests, "
              \o ToString(summary["passed"]) \o " passed, "
              \o ToString(summary["failed"]) \o " failed ("
              \o summary["pass_rate"] \o " pass rate)**",
           "" >>
        \o Concat([i \in 1..Len(results) |-> TestEntry(i, results[i])])
    ELSE
        << "**Found " \o ToString(Get(summary, "row_count", Len(results))) \o " results**",
           "" >>
        \o Concat([i \in 1..Len(results) |-> GenericEntry(i, results[i])])

----------------------------------------------------------------------------
(* tools/cicd_query.py: the two tools.  The emoji of the source's messages *)
(* are left out of the message texts.                                      *)

\* str.strip() for the cache keys of the model
Strip(k) == IF k = " K2 " THEN "K2" ELSE k

\* mutant: the connection-error clause placed before the timeout clause
PrepareExceptsConnectFirst == <<"ConnectionError", "Timeout", "HTTPError", "RequestException">>

\* the except clauses of query_cicd_prepare, in source order
PrepareExcepts == <<"Timeout", "ConnectionError", "HTTPError", "RequestException">>

\* the except clauses of query_cicd_execute, in source order
ExecuteExcepts == <<"Timeout", "ConnectionError", "HTTPError", "RequestException">>

PREPARE_TIMEOUT_MSG == "CI/CD database query preparation timed out. Please try again."
EXECUTE_TIMEOUT_MSG == "SQL execution timed out. Query may be too complex."
CICD_CONNECT_MSG == "Could not connect to CI/CD database service. Service may be down."

\* requests.post(NL2SQL_PREPARE_URL, json={...}, timeout=NL2SQL_TIMEOUT)
PrepareRequest(question) ==
    [url |-> NL2SQL_PREPARE_URL,
     json |-> [query |-> question, user_id |-> USER_ID],
     timeout |-> NL2SQL_TIMEOUT]

\* mutant: the cache key is stripped before it is sent
ExecuteRequestStripped(sql, cache_key, confirm_cache) ==
    [url |-> NL2SQL_EXECUTE_URL,
     json |-> [sql |-> sql, cache_key |-> Strip(cache_key),
               confirm_cache |-> confirm_cache, user_id |-> USER_ID],
     timeout |-> NL2SQL_TIMEOUT]

\* requests.post(NL2SQL_EXECUTE_URL, json={...}, timeout=NL2SQL_TIMEOUT)
ExecuteRequest(sql, cache_key, confirm_cache) ==
    [url |-> NL2SQL_EXECUTE_URL,
     json |-> [sql |-> sql, cache_key |-> cache_key,
               confirm_cache |-> confirm_cache, user_id |-> USER_ID],
     timeout |-> NL2SQL_TIMEOUT]

\* the message of the ACTION_REQUIRED directive (an f-string over cache_key and
\* instruction)
DirectiveMessage(cache_key, instruction) ==
    "Query NOT complete - Action required!\n\nREQUIRED NEXT STEPS:\n"
    \o "1. Generate SQL using the instruction below\n"
    \o "2. Call query_cicd_execute(sql=\"YOUR_SQL\", cache_key=\""
    \o PyStr(cache_key) \o "\", confirm_cache=true)\n"
    \o "3. Return those results to the user\n\n"
    \o "DO NOT show SQL to user without executing it first!\n\n"
    \o "SQL Generation Instruction:\n" \o PyStr(instruction) \o "\n\n"
    \o "Example call:\nquery_cicd_execute(\n    sql=\"SELECT * FROM deployment_data "
    \o "WHERE deploy_env='PROD' ORDER BY date DESC LIMIT 3\",\n    cache_key=\""
    \o PyStr(cache_key) \o "\",\n    confirm_cache=true\n)"

\* query_cicd_prepare, status == "success": the cache hit
PrepareSuccess(data) ==
    LET results == Get(data, "results", <<>>)
        summary == AddSummaryStats(results)
        formatted_table == FormatAsReadableList(results, summary)
    IN  [status |-> "success",
         cached |-> TRUE,
         results |-> results,
         summary |-> summary,
         formatted_results |-> formatted_table,
         sql |-> Get(data, "sql", None),
         message |-> "Query results retrieved from cache. Display the 'formatted_results' to the user."]

\* mutant: a cache miss is answered through the cache-hit branch
PrepareNeedsGenerationAsHit(data) == PrepareSuccess(data)

\* mutant: the directive carries the cache key stripped
PrepareNeedsGenerationStripped(data) ==
    LET instruction == Get(data, "instruction", "")
        cache_key == Strip(Get(data, "cache_key", None))
    IN  [status |-> "ACTION_REQUIRED",
         action |-> "EXECUTE_SQL",
         cached |-> FALSE,
         cache_key |-> cache_key,
         instruction |-> instruction,
         error |-> "INCOMPLETE - SQL not executed yet",
         message |-> DirectiveMessage(cache_key, instruction)]

\* query_cicd_prepare, status == "needs_generation": the cache miss
PrepareNeedsGeneration(data) ==
    LET instruction == Get(data, "instruction", "")
        cache_key == Get(data, "cache_key", None)
    IN  [status |-> "ACTION_REQUIRED",
         action |-> "EXECUTE_SQL",
         cached |-> FALSE,
         cache_key |-> cache_key,
         instruction |-> instruction,
         error |-> "INCOMPLETE - SQL not executed yet",
         message |-> DirectiveMessage(cache_key, instruction)]

\* mutant: the backend's warnings and suggestions are dropped
PrepareErrorBare(data) ==
    [status |-> "error",
     error |-> Get(data, "message", "Unknown error"),
     warnings |-> <<>>,
     suggestions |-> <<>>]

\* query_cicd_prepare, status == "error"
PrepareError(data) ==
    [status |-> "error",
     error |-> Get(data, "message", "Unknown error"),
     warnings |-> Get(data, "warnings", <<>>),
     suggestions |-> Get(data, "suggestions", <<>>)]

\* mutant: the error does not name the status it met
UnexpectedStatusOpaque(status) ==
    [status |-> "error",
     error |-> "Unexpected status"]

\* the else branch of both tools
UnexpectedStatus(status) ==
    [status |-> "error",
     error |-> "Unexpected status: " \o PyStr(status)]

\* query_cicd_prepare after data = resp.json(): the dispatch on the status field
PrepareDispatch(data) ==
    LET status == Get(data, "status", None) IN
    IF status = "success" THEN PrepareSuccess(data)
    ELSE IF status = "needs_generation" THEN PrepareNeedsGeneration(data)
    ELSE IF status = "error" THEN PrepareError(data)
    ELSE UnexpectedStatus(status)

\* mutant: the execute path formats without the summary it computed
ExecuteSuccessUnsummarised(data) ==
    LET results == Get(data, "results", <<>>)
        summary == AddSummaryStats(results)
        formatted_table == FormatAsReadableList(results, EmptyDict)
    IN  [status |-> "success",
         results |-> results,
         summary |-> summary,
         formatted_results |-> formatted_table,
         sql |-> Get(data, "sql", None),
         cached |-> Get(data, "cached", FALSE),
         message |-> "Query executed successfully. Display the 'formatted_results' to the user."]

\* query_cicd_execute, status == "success"
ExecuteSuccess(data) ==
    LET results == Get(data, "results", <<>>)
        summary == AddSummaryStats(results)
        formatted_table == FormatAsReadableList(results, summary)
    IN  [status |-> "success",
         results |-> results,
         summary |-> summary,
         formatted_results |-> formatted_table,
         sql |-> Get(data, "sql", None),
         cached |-> Get(data, "cached", FALSE),
         message |-> "Query executed successfully. "
                     \o (IF Get(data, "cached", FALSE) THEN "Cached for future use. " ELSE "")
                     \o "Display the 'formatted_results' to the user."]

\* mutant: the sql field echoes the backend's SQL when the body has one
ExecuteErrorBackendSql(sql, data) ==
    [status |-> "error",
     error |-> Get(data, "message", "SQL execution failed"),
     sql |-> Get(data, "sql", sql),
     error_type |-> Get(data, "error_type", None)]

\* query_cicd_execute, status == "error"
ExecuteError(sql, data) ==
    [status |-> "error",
     error |-> Get(data, "message", "SQL execution failed"),
     sql |-> sql,
     error_type |-> Get(data, "error_type", None)]

\* query_cicd_execute after data = resp.json(): the dispatch on the status field
ExecuteDispatch(sql, data) ==
    LET status == Get(data, "status", None) IN
    IF status = "success" THEN ExecuteSuccess(data)
    ELSE IF status = "error" THEN ExecuteError(sql, data)
    ELSE UnexpectedStatus(status)

\* the handlers of the two tools' except clauses, which differ in the timeout
\* message and in the prefix of the generic message
CicdExcept(excepts, b, timeout_msg, generic_prefix) ==
    LET exc == Thrown(b)
        clause == Clause(excepts, exc)
    IN  CASE clause = "Timeout" ->
                Return([status |-> "error", error |-> timeout_msg])
          [] clause = "ConnectionError" ->
                Return([status |-> "error", error |-> CICD_CONNECT_MSG])
          [] clause = "HTTPError" ->
                Return([status |-> "error",
                        error |-> "CI/CD database service returned error: " \o ToString(b.code),
                        details |-> IF ResponseTruthy(b.code) THEN b.text ELSE None])
          [] clause = "RequestException" ->
                Return([status |-> "error", error |-> generic_prefix \o ExcStr(exc)])
          [] OTHER -> Raise(exc)

\* mutant: the request is sent a second time after a timeout
query_cicd_prepare_retrying(question, b) ==
    [sent |-> IF "Timeout" \in Ancestors(Thrown(b))
              THEN << PrepareRequest(question), PrepareRequest(question) >>
              ELSE << PrepareRequest(question) >>,
     result |-> IF Thrown(b) = "none" THEN Return(PrepareDispatch(b.data))
                ELSE CicdExcept(PrepareExcepts, b, PREPARE_TIMEOUT_MSG,
                                "Error preparing CI/CD query: ")]

\* one invocation of query_cicd_prepare against backend behaviour b: the HTTP
\* requests it issues and how it ends
query_cicd_prepare(question, b) ==
    [sent |-> << PrepareRequest(question) >>,
     result |-> IF Thrown(b) = "none" THEN Return(PrepareDispatch(b.data))
                ELSE CicdExcept(PrepareExcepts, b, PREPARE_TIMEOUT_MSG, "Error preparing CI/CD query: ")]

\* mutant: a (sql, cache_key) pair already sent is not sent again
query_cicd_execute_memo(sql, cache_key, confirm_cache, b) ==
    [sent |-> IF execReqs[<<sql, cache_key>>] > 0 THEN <<>>
              ELSE << ExecuteRequest(sql, cache_key, confirm_cache) >>,
     result |-> IF Thrown(b) = "none" THEN Return(ExecuteDispatch(sql, b.data))
                ELSE CicdExcept(ExecuteExcepts, b, EXECUTE_TIMEOUT_MSG,
                                "Error executing SQL: ")]

\* one invocation of query_cicd_execute against backend behaviour b
query_cicd_execute(sql, cache_key, confirm_cache, b) ==
    [sent |-> << ExecuteRequest(sql, cache_key, confirm_cache) >>,
     result |-> IF Thrown(b) = "none" THEN Return(ExecuteDispatch(sql, b.data))
                ELSE CicdExcept(ExecuteExcepts, b, EXECUTE_TIMEOUT_MSG, "Error executing SQL: ")]

----------------------------------------------------------------------------
(* tools/rag_search.py.  A returned text is the sequence of its lines.     *)

\* the except clauses of search_knowledge_base, in source order
SearchExcepts == <<"Timeout", "ConnectionError", "HTTPError", "RequestException">>

\* the except clauses of submit_feedback, in source order
FeedbackExcepts == <<"ConnectionError", "HTTPError", "RequestException">>

NO_RESULTS_MSG == "No relevant information found in the knowledge base for this query."
SEARCH_TIMEOUT_MSG ==
    "ERROR: Knowledge base search timed out after " \o ToString(RAG_TIMEOUT)
    \o "s. The RAG service is taking too long. Try a simpler query or check if the service is running."
SEARCH_CONNECT_MSG ==
    "ERROR: Could not connect to RAG Testing Pipeline. Ensure the service is running with 'docker-compose up -d'."
FEEDBACK_CONNECT_MSG == "ERROR: Could not connect to RAG Testing Pipeline to submit feedback."

\* if profile: (None and the empty string are falsy)
Truthy(v) == v # None /\ v # ""

\* mutant: the profile is added whenever it is not None
SearchRequestDataWhenGiven(query, profile, top_k) ==
    LET request_data == [query |-> query, top_k |-> top_k, retrieve_only |-> TRUE]
    IN  IF profile # None THEN request_data @@ [profile |-> profile] ELSE request_data

\* the json of search_knowledge_base's request
SearchRequestData(query, profile, top_k) ==
    LET request_data == [query |-> query, top_k |-> top_k, retrieve_only |-> TRUE]
    IN  IF Truthy(profile) THEN request_data @@ [profile |-> profile] ELSE request_data

SearchRequest(query, profile, top_k) ==
    [url |-> RAG_URL,
     json |-> SearchRequestData(query, profile, top_k),
     timeout |-> RAG_TIMEOUT]

FeedbackRequest(query_id, score, comment) ==
    [url |-> FEEDBACK_URL,
     json |-> [query_id |-> query_id, score |-> score, comment |-> comment],
     timeout |-> RAG_TIMEOUT]

\* f"{score:.3f}" of a relevance score given in thousandths: 873 -> "0.873"
ScoreStr(score) ==
    LET frac == score % 1000
    IN  ToString(score \div 1000) \o "."
        \o (IF frac < 10 THEN "00" ELSE IF frac < 100 THEN "0" ELSE "") \o ToString(frac)

\* the error_detail of an HTTPError handler for the response bodies of the model:
\* error_data.get("detail", str(error_data)) when the body is a JSON object, and
\* the body text when e.response.json() or .get raises
ErrorDetail(text) ==
    CASE text = "{\"detail\": \"profile not found\"}" -> "profile not found"
      [] text = "{\"error\": \"overloaded\"}" -> "{'error': 'overloaded'}"
      [] OTHER -> text

\* the keys the two comprehensions subscript: a chunk that lacks one raises KeyError
ChunkKeys == {"citation", "title", "content", "score"}

ChunkLines(chunk) ==
    << chunk["citation"] \o " " \o chunk["title"], "Content:", chunk["content"] >>

RECURSIVE ChunksText(_)
\* "\n\n".join of the chunks' blocks: an empty line between two blocks
ChunksText(chunks) ==
    IF chunks = <<>> THEN << "" >>
    ELSE IF Len(chunks) = 1 THEN ChunkLines(chunks[1])
    ELSE ChunkLines(chunks[1]) \o << "" >> \o ChunksText(Tail(chunks))

SourceLine(chunk) ==
    chunk["citation"] \o " " \o chunk["title"]
    \o (IF Truthy(Get(chunk, "url", None)) THEN " - " \o chunk["url"] ELSE "")
    \o " (relevance: " \o ScoreStr(chunk["score"]) \o ")"

\* "\n".join of the chunks' source lines
SourcesList(chunks) ==
    IF chunks = <<>> THEN << "" >> ELSE [i \in 1..Len(chunks) |-> SourceLine(chunks[i])]

\* mutant: no check for an empty chunk list, the block is formatted as it comes
SearchBodyUnchecked(data) ==
    LET chunks == Get(data, "chunks", <<>>)
        metrics == Get(data, "metrics", EmptyDict)
        query_id == Get(data, "query_id", "")
    IN  IF \E i \in 1..Len(chunks) : ~(ChunkKeys \subseteq DOMAIN chunks[i])
        THEN Raise("KeyError")
        ELSE Return(<< "# Retrieved Information", "" >>
                    \o ChunksText(chunks)
                    \o << "", "---", "# SOURCES" >>
                    \o SourcesList(chunks)
                    \o << "",
                          "Query ID: " \o query_id \o " (use this for feedback)",
                          "Retrieved " \o ToString(Len(chunks)) \o " chunks in "
                              \o ToString(Get(metrics, "latency_ms", 0)) \o "ms" >>)

\* search_knowledge_base after data = resp.json()
SearchBody(data) ==
    LET chunks == Get(data, "chunks", <<>>)
        metrics == Get(data, "metrics", EmptyDict)
        query_id == Get(data, "query_id", "")
    IN  IF \E i \in 1..Len(chunks) : ~(ChunkKeys \subseteq DOMAIN chunks[i])
        THEN Raise("KeyError")
        ELSE IF chunks = <<>> THEN Return(<< NO_RESULTS_MSG >>)
        ELSE Return(<< "# Retrieved Information", "" >>
                    \o ChunksText(chunks)
                    \o << "", "---", "# SOURCES" >>
                    \o SourcesList(chunks)
                    \o << "",
                          "Query ID: " \o query_id \o " (use this for feedback)",
                          "Retrieved " \o ToString(Len(chunks)) \o " chunks in "
                              \o ToString(Get(metrics, "latency_ms", 0)) \o "ms" >>)

\* how an exception raised inside search_knowledge_base's try block ends the call
SearchExcept(b, exc) ==
    LET clause == Clause(SearchExcepts, exc)
    IN  CASE clause = "Timeout" -> Return(<< SEARCH_TIMEOUT_MSG >>)
          [] clause = "ConnectionError" -> Return(<< SEARCH_CONNECT_MSG >>)
          [] clause = "HTTPError" ->
                Return(<< "ERROR: RAG service returned error (" \o ToString(b.code)
                          \o "): " \o ErrorDetail(b.text) >>)
          [] clause = "RequestException" ->
                Return(<< "ERROR: Failed to search knowledge base: " \o ExcStr(exc) >>)
          [] OTHER -> Raise(exc)

\* one invocation of search_knowledge_base against backend behaviour b
search_knowledge_base(query, profile, top_k, b) ==
    [sent |-> << SearchRequest(query, profile, top_k) >>,
     result |-> IF Thrown(b) # "none" THEN SearchExcept(b, Thrown(b))
                ELSE LET body == SearchBody(b.data)
                     IN  IF body.kind = "raise" THEN SearchExcept(b, body.exc) ELSE body]

\* how an exception raised inside submit_feedback's try block ends the call
FeedbackExcept(b, exc) ==
    LET clause == Clause(FeedbackExcepts, exc)
    IN  CASE clause = "ConnectionError" -> Return(<< FEEDBACK_CONNECT_MSG >>)
          [] clause = "HTTPError" ->
                Return(<< "ERROR: Feedback submission failed (" \o ToString(b.code)
                          \o "): " \o ErrorDetail(b.text) >>)
          [] clause = "RequestException" ->
                Return(<< "ERROR: Failed to submit feedback: " \o ExcStr(exc) >>)
          [] OTHER -> Raise(exc)

\* one invocation of submit_feedback against backend behaviour b
submit_feedback(query_id, score, comment, b) ==
    [sent |-> << FeedbackRequest(query_id, score, comment) >>,
     result |-> IF Thrown(b) # "none" THEN FeedbackExcept(b, Thrown(b))
                ELSE Return(<< "Feedback submitted successfully: " \o ToString(score)
                               \o "/10 for query " \o query_id >>)]

----------------------------------------------------------------------------
(* Inputs: what the calling agent passes and how the backend behaves *)

\* all sequences over S of length at most n
SeqsUpTo(S, n) == UNION {[1..k -> S] : k \in 0..n}

Questions == {"Show me deployments for frontend in the last week"}
SqlTexts == {"SELECT * FROM deployment_data", "SELECT 1"}
\* the cache keys the backend issues
CacheKeys == {" K2 "}
\* the cache keys the agent passes to execute: an issued one, one the backend
\* never issued, or the empty string
AgentKeys == CacheKeys \cup {"k1", ""}
Instructions == {"Schema: deployment_data(app_name, deploy_env, deploy_result, date)"}

DeployOk ==
    [app_name |-> "frontend", app_version |-> "1.4.0", deploy_env |-> "PROD",
     deploy_result |-> "SUCCESS", date |-> "2024-01-15T10:30:00", deployed_by |-> "ci"]
DeployFail == [app_name |-> "frontend", deploy_result |-> "FAILURE", date |-> ""]
DeployPending == [app_name |-> "api", deploy_result |-> "PENDING"]
TestRun ==
    [app_name |-> "api", test_type |-> "unit", tests_passed |-> 15, tests_failed |-> 1,
     test_duration_seconds |-> 12, date |-> "2024-01-16T08:05:59"]
TestClean == [test_type |-> "e2e", tests_passed |-> 2]
TestBare == [test_type |-> "smoke"]
DeployWithTests == [deploy_result |-> "SUCCESS", tests_passed |-> 3, tests_failed |-> 2]
CountRow == [count |-> 3]

\* the rows of the result lists the shape specification draws from
Rows == {DeployOk, DeployFail, DeployPending, TestRun, TestClean, TestBare,
         DeployWithTests, CountRow}

\* the rows of the result lists the protocol specifications draw from
ProtocolRows == {DeployOk, DeployFail}

\* exceptions requests.post raises itself
PostRaises ==
    {[kind |-> "raise", exc |-> e] :
        e \in {"ConnectTimeout", "ReadTimeout", "ConnectionError", "TooManyRedirects"}}

\* 4xx and 5xx responses: status code and body text
ErrorResponses ==
    {[kind |-> "response", code |-> 500, text |-> "Internal Server Error"],
     [kind |-> "response", code |-> 404, text |-> "{\"detail\": \"profile not found\"}"],
     [kind |-> "response", code |-> 503, text |-> "{\"error\": \"overloaded\"}"],
     [kind |-> "response", code |-> 400, text |-> ""]}

\* a final response that is neither 2xx nor 4xx/5xx: a 3xx that requests does
\* not follow (304, or a redirect without a Location header)
UnfollowedResponses == {[kind |-> "response", code |-> 304, text |-> ""]}

Ok(data) == [kind |-> "response", code |-> 200, data |-> data]

\* 2xx bodies of the prepare endpoint
PrepareData ==
    {[status |-> "success", results |-> rs, sql |-> "SELECT * FROM deployment_data"] :
        rs \in SeqsUpTo(ProtocolRows, MaxRows)}
    \cup {[status |-> "success"]}
    \cup {[status |-> "needs_generation", instruction |-> ins, cache_key |-> ck] :
            ins \in Instructions, ck \in CacheKeys}
    \cup {[status |-> "needs_generation"]}
    \cup {[status |-> "error", message |-> "Ambiguous application name",
           warnings |-> << "no time range given" >>,
           suggestions |-> << "name the application" >>],
          [status |-> "error"]}
    \cup {[status |-> "pending"], EmptyDict}

\* 2xx bodies of the execute endpoint
ExecuteData ==
    {[status |-> "success", results |-> rs, sql |-> "SELECT * FROM deployment_data",
      cached |-> TRUE] : rs \in SeqsUpTo(ProtocolRows, MaxRows)}
    \cup {[status |-> "success", results |-> << DeployOk >>, cached |-> FALSE],
          [status |-> "success"]}
    \cup {[status |-> "error", message |-> "syntax error at or near FROM",
           error_type |-> "SQLSyntaxError", sql |-> "SELECT 1"],
          [status |-> "error"]}
    \cup {[status |-> "needs_generation", cache_key |-> "k1"], EmptyDict}

PrepareBackend == PostRaises \cup ErrorResponses \cup {Ok(d) : d \in PrepareData}
ExecuteBackend == PostRaises \cup ErrorResponses \cup {Ok(d) : d \in ExecuteData}

Queries == {"How do I configure the deployment pipeline?"}
Profiles == {None, "", "openai-gpt4o"}
TopKs == {5, 2}
QueryIds == {"q-123"}
Scores == {-1, 7, 11}
Comments == {"", "needs links"}

ChunkFull ==
    [citation |-> "[1]", title |-> "Deploy guide", content |-> "Run the pipeline.",
     url |-> "https://kb.example/deploy", score |-> 873]
ChunkNoUrl == [citation |-> "[2]", title |-> "FAQ", content |-> "See the guide.", score |-> 50]
ChunkNoCitation == [title |-> "Draft", content |-> "tbd", score |-> 1000]

Chunks == {ChunkFull, ChunkNoUrl, ChunkNoCitation}

\* 2xx bodies of the retrieval endpoint
SearchData ==
    {[chunks |-> cs, metrics |-> [latency_ms |-> 42], query_id |-> "q-123"] :
        cs \in SeqsUpTo(Chunks, MaxChunks)}
    \cup {[chunks |-> << ChunkFull >>], EmptyDict}

SearchBackend == PostRaises \cup ErrorResponses \cup {Ok(d) : d \in SearchData}
\* submit_feedback never reads the body of the response
FeedbackBackend ==
    PostRaises \cup ErrorResponses \cup UnfollowedResponses \cup {Ok([status |-> "ok"])}

----------------------------------------------------------------------------
(* The protocol specification: any sequence of tool invocations, each      *)
(* against any backend behaviour.  The adapter keeps nothing between       *)
(* invocations: last and issued record the history the claims speak of.    *)

NoCall == [tool |-> "none"]
NoResult == [kind |-> "none"]
NoHit == [results |-> <<>>, sql |-> None, cached |-> FALSE]
\* a frame no invocation is using
IdleFrame == [phase |-> "idle"]
NoCalls == [i \in 1..MaxInvocations |-> IdleFrame]
NotBooted == [phase |-> "none"]

\* the (sql, cache_key) pairs the agent can submit
Pairs == SqlTexts \X AgentKeys

Invocation(tool, args, b, run) ==
    [tool |-> tool, args |-> args, backend |-> b, sent |-> run.sent, result |-> run.result]

\* the payload is an ACTION_REQUIRED directive
IsDirective(result) ==
    result.kind = "return" /\ result.value.status = "ACTION_REQUIRED"

PrepareCall(question, b) ==
    LET run == query_cicd_prepare(question, b) IN
    /\ last' = Invocation("query_cicd_prepare", [question |-> question], b, run)
    /\ issued' = IF IsDirective(run.result)
                 THEN issued \cup {run.result.value.cache_key} ELSE issued

ExecuteCall(sql, cache_key, confirm_cache, b) ==
    LET run == query_cicd_execute(sql, cache_key, confirm_cache, b) IN
    /\ last' = Invocation("query_cicd_execute",
                          [sql |-> sql, cache_key |-> cache_key,
                           confirm_cache |-> confirm_cache], b, run)
    /\ issued' = issued

SearchCall(query, profile, top_k, b) ==
    LET run == search_knowledge_base(query, profile, top_k, b) IN
    /\ last' = Invocation("search_knowledge_base",
                          [query |-> query, profile |-> profile, top_k |-> top_k], b, run)
    /\ issued' = issued

FeedbackCall(query_id, score, comment, b) ==
    LET run == submit_feedback(query_id, score, comment, b) IN
    /\ last' = Invocation("submit_feedback",
                          [query_id |-> query_id, score |-> score, comment |-> comment],
                          b, run)
    /\ issued' = issued

Init ==
    /\ last = NoCall
    /\ issued = {}
    /\ nCalls = 0
    /\ execCalls = [p \in Pairs |-> 0]
    /\ execReqs = [p \in Pairs |-> 0]
    /\ hit = NoHit
    /\ prepOut = NoResult
    /\ execOut = NoResult
    /\ uiOut = NoResult
    /\ calls = NoCalls
    /\ boot = NotBooted

Prepare ==
    /\ \E question \in Questions, b \in PrepareBackend : PrepareCall(question, b)
    /\ UNCHANGED <<nCalls, execCalls, execReqs, hit, prepOut, execOut, calls, boot, uiOut>>

Execute ==
    /\ \E sql \in SqlTexts, cache_key \in AgentKeys, confirm_cache \in BOOLEAN,
          b \in ExecuteBackend : ExecuteCall(sql, cache_key, confirm_cache, b)
    /\ UNCHANGED <<nCalls, execCalls, execReqs, hit, prepOut, execOut, calls, boot, uiOut>>

Search ==
    /\ \E query \in Queries, profile \in Profiles, top_k \in TopKs, b \in SearchBackend :
            SearchCall(query, profile, top_k, b)
    /\ UNCHANGED <<nCalls, execCalls, execReqs, hit, prepOut, execOut, calls, boot, uiOut>>

Feedback ==
    /\ \E query_id \in QueryIds, score \in Scores, comment \in Comments,
          b \in FeedbackBackend : FeedbackCall(query_id, score, comment, b)
    /\ UNCHANGED <<nCalls, execCalls, execReqs, hit, prepOut, execOut, calls, boot, uiOut>>

Next == Prepare \/ Execute \/ Search \/ Feedback

Spec == Init /\ [][Next]_vars

----------------------------------------------------------------------------
(* The counting specification: up to MaxCalls invocations of the two CI/CD *)
(* tools, counting per (sql, cache_key) pair the execute invocations made  *)
(* and the execute requests sent.                                          *)

RECURSIVE Tally(_, _)
\* counts with every request of sent to the execute endpoint added, under the
\* (sql, cache_key) pair its body carries
Tally(counts, sent) ==
    IF sent = <<>> THEN counts
    ELSE LET req == Head(sent)
             pair == <<req.json.sql, req.json.cache_key>>
         IN  IF req.url = NL2SQL_EXECUTE_URL /\ pair \in DOMAIN counts
             THEN Tally([counts EXCEPT ![pair] = @ + 1], Tail(sent))
             ELSE Tally(counts, Tail(sent))

CountPrepare ==
    /\ nCalls < MaxCalls
    /\ \E question \in Questions, b \in PrepareBackend :
         LET run == query_cicd_prepare(question, b) IN
         /\ issued' = IF IsDirective(run.result)
                      THEN issued \cup {run.result.value.cache_key} ELSE issued
         /\ execReqs' = Tally(execReqs, run.sent)
    /\ nCalls' = nCalls + 1
    /\ UNCHANGED <<last, execCalls, hit, prepOut, execOut, calls, boot, uiOut>>

CountExecute ==
    /\ nCalls < MaxCalls
    /\ \E sql \in SqlTexts, cache_key \in AgentKeys, confirm_cache \in BOOLEAN,
          b \in ExecuteBackend :
         LET run == query_cicd_execute(sql, cache_key, confirm_cache, b) IN
         /\ execCalls' = [execCalls EXCEPT ![<<sql, cache_key>>] = @ + 1]
         /\ execReqs' = Tally(execReqs, run.sent)
    /\ nCalls' = nCalls + 1
    /\ UNCHANGED <<last, issued, hit, prepOut, execOut, calls, boot, uiOut>>

NextCount == CountPrepare \/ CountExecute

SpecCount == Init /\ [][NextCount]_vars

----------------------------------------------------------------------------
(* The shape specification: one backend "success" response, drawn at the   *)
(* start, answered once by each phase.                                     *)

ShapeHits ==
    {[results |-> rs, sql |-> "SELECT * FROM deployment_data", cached |-> c] :
        rs \in SeqsUpTo(Rows, MaxShapeRows), c \in BOOLEAN}

InitShape ==
    /\ last = NoCall
    /\ issued = {}
    /\ nCalls = 0
    /\ execCalls = [p \in Pairs |-> 0]
    /\ execReqs = [p \in Pairs |-> 0]
    /\ hit \in ShapeHits
    /\ prepOut = NoResult
    /\ execOut = NoResult
    /\ uiOut = NoResult
    /\ calls = NoCalls
    /\ boot = NotBooted

ShapePrepare ==
    /\ prepOut = NoResult
    /\ \E question \in Questions :
         prepOut' = query_cicd_prepare(question,
                        Ok([status |-> "success", results |-> hit.results,
                            sql |-> hit.sql])).result
    /\ UNCHANGED <<last, issued, nCalls, execCalls, execReqs, hit, execOut, calls, boot, uiOut>>

ShapeExecute ==
    /\ execOut = NoResult
    /\ \E sql \in SqlTexts, cache_key \in AgentKeys :
         execOut' = query_cicd_execute(sql, cache_key, TRUE,
                        Ok([status |-> "success", results |-> hit.results,
                            sql |-> hit.sql, cached |-> hit.cached])).result
    /\ UNCHANGED <<last, issued, nCalls, execCalls, execReqs, hit, prepOut, calls, boot, uiOut>>

NextShape == ShapePrepare \/ ShapeExecute

SpecShape == InitShape /\ [][NextShape]_vars

----------------------------------------------------------------------------
(* The concurrent specification: up to MaxInvocations invocations in       *)
(* flight at once, as the hosting server runs them.  An invocation is      *)
(* called (its arguments bound), sends its request, and finishes when the  *)
(* backend has answered that request; the steps of different invocations   *)
(* interleave freely.  The tool functions read the module constants and    *)
(* their own arguments and locals, and write only their own locals.        *)

\* one invocation of a tool, against backend behaviour b
ToolRun(tool, args, b) ==
    CASE tool = "query_cicd_prepare" -> query_cicd_prepare(args.question, b)
      [] tool = "query_cicd_execute" ->
            query_cicd_execute(args.sql, args.cache_key, args.confirm_cache, b)
      [] tool = "search_knowledge_base" ->
            search_knowledge_base(args.query, args.profile, args.top_k, b)
      [] tool = "submit_feedback" ->
            submit_feedback(args.query_id, args.score, args.comment, b)

\* the requests.post call of a tool
ToolRequest(tool, args) ==
    CASE tool = "query_cicd_prepare" -> PrepareRequest(args.question)
      [] tool = "query_cicd_execute" ->
            ExecuteRequest(args.sql, args.cache_key, args.confirm_cache)
      [] tool = "search_knowledge_base" ->
            SearchRequest(args.query, args.profile, args.top_k)
      [] tool = "submit_feedback" ->
            FeedbackRequest(args.query_id, args.score, args.comment)

\* the invocations the hosting server makes
ConcurrentInvocations ==
    {[tool |-> "query_cicd_prepare", args |-> [question |-> q]] : q \in Questions}
    \cup {[tool |-> "query_cicd_execute",
           args |-> [sql |-> sql, cache_key |-> " K2 ", confirm_cache |-> TRUE]] :
            sql \in SqlTexts}
    \cup {[tool |-> "search_knowledge_base",
           args |-> [query |-> q, profile |-> "openai-gpt4o", top_k |-> 5]] : q \in Queries}
    \cup {[tool |-> "submit_feedback",
           args |-> [query_id |-> id, score |-> 7, comment |-> ""]] : id \in QueryIds}

\* how the backend answers the request of an invocation of tool
ConcurrentBackend(tool) ==
    CASE tool = "query_cicd_prepare" ->
            {[kind |-> "raise", exc |-> "ReadTimeout"],
             Ok([status |-> "success", results |-> << DeployOk >>,
                 sql |-> "SELECT * FROM deployment_data"]),
             Ok([status |-> "needs_generation",
                 instruction |-> "Schema: deployment_data(app_name, deploy_env, deploy_result, date)",
                 cache_key |-> " K2 "])}
      [] tool = "query_cicd_execute" ->
            {[kind |-> "raise", exc |-> "ConnectionError"],
             Ok([status |-> "success", results |-> << DeployOk, DeployFail >>,
                 sql |-> "SELECT * FROM deployment_data", cached |-> TRUE]),
             Ok([status |-> "error", message |-> "syntax error at or near FROM",
                 error_type |-> "SQLSyntaxError"])}
      [] tool = "search_knowledge_base" ->
            {[kind |-> "response", code |-> 500, text |-> "Internal Server Error"],
             Ok([chunks |-> << ChunkFull >>, metrics |-> [latency_ms |-> 42],
                 query_id |-> "q-123"])}
      [] tool = "submit_feedback" ->
            {[kind |-> "raise", exc |-> "ReadTimeout"], Ok([status |-> "ok"])}

\* mutant: the invocations of one tool share one frame, as if the tool's locals
\* were module-level variables
LocalsShared(i) ==
    calls[CHOOSE j \in 1..MaxInvocations :
            calls[j].phase # "idle" /\ calls[j].tool = calls[i].tool]

\* the parameters and local variables invocation i computes with: its own
Locals(i) == calls[i]

InitConcurrent ==
    /\ last = NoCall
    /\ issued = {}
    /\ nCalls = 0
    /\ execCalls = [p \in Pairs |-> 0]
    /\ execReqs = [p \in Pairs |-> 0]
    /\ hit = NoHit
    /\ prepOut = NoResult
    /\ execOut = NoResult
    /\ uiOut = NoResult
    /\ calls = NoCalls
    /\ boot = NotBooted

\* the hosting server calls a tool: the arguments are bound in a new frame
Call(i) ==
    /\ calls[i].phase = "idle"
    /\ \E inv \in ConcurrentInvocations :
         calls' = [calls EXCEPT ![i] = [phase |-> "called", tool |-> inv.tool,
                                        args |-> inv.args]]
    /\ UNCHANGED <<last, issued, nCalls, execCalls, execReqs, hit, prepOut, execOut, boot, uiOut>>

\* the invocation builds its request and posts it
Send(i) ==
    /\ calls[i].phase = "called"
    /\ LET locals == Locals(i) IN
       calls' = [calls EXCEPT ![i] =
                    [phase |-> "sent", tool |-> calls[i].tool, args |-> calls[i].args,
                     sent |-> << ToolRequest(calls[i].tool, locals.args) >>]]
    /\ UNCHANGED <<last, issued, nCalls, execCalls, execReqs, hit, prepOut, execOut, boot, uiOut>>

\* the backend answers the request, and the invocation returns (or raises)
Finish(i) ==
    /\ calls[i].phase = "sent"
    /\ \E b \in ConcurrentBackend(calls[i].tool) :
         LET locals == Locals(i) IN
         calls' = [calls EXCEPT ![i] =
                      [phase |-> "done", tool |-> calls[i].tool, args |-> calls[i].args,
                       sent |-> calls[i].sent, backend |-> b,
                       result |-> ToolRun(calls[i].tool, locals.args, b).result]]
    /\ UNCHANGED <<last, issued, nCalls, execCalls, execReqs, hit, prepOut, execOut, boot, uiOut>>

NextConcurrent == \E i \in 1..MaxInvocations : Call(i) \/ Send(i) \/ Finish(i)

SpecConcurrent == InitConcurrent /\ [][NextConcurrent]_vars

----------------------------------------------------------------------------
(* The startup specification: a process runs one of the repository's entry *)
(* scripts up to the point where its tools are registered, or where the    *)
(* script fails.  server.py starts with "from registry import              *)
(* register_tools", and registry.py with "from tools.rag_search import     *)
(* rag_search"; test_tool.py starts with "from tools import rag_search"    *)
(* and calls rag_search.register(mcp) on a mock server.                    *)

\* the entry scripts, each with the first project import it comes to: the
\* module it imports from and the name it imports
EntryScripts ==
    {[script |-> "server.py", via |-> "registry.py",
      from |-> "tools.rag_search", name |-> "rag_search"],
     [script |-> "test_tool.py", via |-> "test_tool.py",
      from |-> "tools", name |-> "rag_search"]}

\* the names bound at the top level of a module once its body has run
ModuleNames(module) ==
    CASE module = "tools.rag_search" ->
            {"os", "requests", "Optional", "load_dotenv", "RAG_URL", "RAG_TIMEOUT",
             "register"}
      [] module = "tools.cicd_db_query" ->
            {"os", "requests", "Dict", "Any", "load_dotenv", "NL2SQL_URL",
             "NL2SQL_TIMEOUT", "register"}
      [] module = "tools.cicd_query" ->
            {"os", "requests", "Dict", "Any", "List", "load_dotenv",
             "NL2SQL_PREPARE_URL", "NL2SQL_EXECUTE_URL", "NL2SQL_TIMEOUT", "USER_ID",
             "_add_summary_stats", "_format_as_readable_list", "register"}
      [] OTHER -> {}

\* the modules of a package directory
Submodules(package) ==
    IF package = "tools" THEN {"rag_search", "cicd_query", "cicd_db_query"} ELSE {}

\* "from module import name" succeeds when name is bound in the module or is a
\* submodule of it, and raises ImportError otherwise
Importable(module, name) ==
    name \in ModuleNames(module) \/ name \in Submodules(module)

\* the module whose body an import of name from module runs
ModuleRun(module, name) ==
    IF name \in Submodules(module) THEN module \o "." \o name ELSE module

\* the tools a module's register(mcp) declares with @mcp.tool(name=...), in
\* source order
DeclaredTools(module) ==
    CASE module = "tools.rag_search" -> << "search_knowledge_base", "submit_feedback" >>
      [] module = "tools.cicd_query" -> << "query_cicd_prepare", "query_cicd_execute" >>
      [] module = "tools.cicd_db_query" -> << "query_cicd_data" >>
      [] OTHER -> <<>>

\* the environment of the process: a variable that is not set is None
Environments ==
    [RAG_SERVICE_URL : {None, "http://rag:8000/query"},
     RAG_TIMEOUT : {None, "5", "60"},
     MCP_SERVER_NAME : {None, "kb"},
     MCP_TRANSPORT : {None, "http"}]

\* int(os.getenv("RAG_TIMEOUT", "30")) for the values of the model
TimeoutOf(env) ==
    CASE env.RAG_TIMEOUT = None -> 30
      [] env.RAG_TIMEOUT = "5" -> 5
      [] env.RAG_TIMEOUT = "60" -> 60

\* the constants tools/rag_search.py sets when its body runs
RagConfig(env) ==
    [RAG_URL |-> IF env.RAG_SERVICE_URL = None THEN RAG_URL ELSE env.RAG_SERVICE_URL,
     RAG_TIMEOUT |-> TimeoutOf(env)]

InitStartup ==
    /\ last = NoCall
    /\ issued = {}
    /\ nCalls = 0
    /\ execCalls = [p \in Pairs |-> 0]
    /\ execReqs = [p \in Pairs |-> 0]
    /\ hit = NoHit
    /\ prepOut = NoResult
    /\ execOut = NoResult
    /\ uiOut = NoResult
    /\ calls = NoCalls
    /\ \E entry \in EntryScripts, env \in Environments :
         boot = [phase |-> "start", entry |-> entry, env |-> env,
                 loaded |-> {}, config |-> EmptyDict, exposed |-> {}, exc |-> None]

\* the import statement loads the module it imports from: the module's body
\* runs and sets its constants from the environment
LoadModule ==
    /\ boot.phase = "start"
    /\ boot' = [boot EXCEPT !.phase = "loaded",
                            !.loaded = {ModuleRun(boot.entry.from, boot.entry.name)},
                            !.config = RagConfig(boot.env)]
    /\ UNCHANGED <<last, issued, nCalls, execCalls, execReqs, hit, prepOut, execOut, calls, uiOut>>

\* the import statement binds the name, or raises ImportError, which nothing
\* catches: the script ends there
ImportName ==
    /\ boot.phase = "loaded"
    /\ boot' = IF Importable(boot.entry.from, boot.entry.name)
               THEN [boot EXCEPT !.phase = "imported"]
               ELSE [boot EXCEPT !.phase = "crashed", !.exc = "ImportError"]
    /\ UNCHANGED <<last, issued, nCalls, execCalls, execReqs, hit, prepOut, execOut, calls, uiOut>>

\* test_tool.py: rag_search.register(mcp) runs the module's @mcp.tool
\* decorators one after the other
RegisterTool ==
    /\ boot.phase = "imported"
    /\ boot.entry.script = "test_tool.py"
    /\ LET declared == DeclaredTools("tools.rag_search")
           n == Cardinality(boot.exposed)
       IN  /\ n < Len(declared)
           /\ boot' = [boot EXCEPT !.exposed = @ \cup {declared[n + 1]},
                                   !.phase = IF n + 1 = Len(declared)
                                             THEN "registered" ELSE "imported"]
    /\ UNCHANGED <<last, issued, nCalls, execCalls, execReqs, hit, prepOut, execOut, calls, uiOut>>

NextStartup == LoadModule \/ ImportName \/ RegisterTool

SpecStartup == InitStartup /\ [][NextStartup]_vars

----------------------------------------------------------------------------
(* test/mcp_ui_integration.py: the rich-UI variant of the CI/CD adapter.   *)
(* A component of the UI library is a record naming its constructor and    *)
(* carrying the constructor's keyword arguments.                           *)

Alert(variant, title, message) ==
    [component |-> "Alert", variant |-> variant, title |-> title, message |-> message]

AlertWithDetails(variant, title, message, details) ==
    [component |-> "Alert", variant |-> variant, title |-> title, message |-> message,
     details |-> details]

Container(components) ==
    [component |-> "Container", layout |-> "vertical", components |-> components]

\* the collapsed block showing the generated SQL
SqlCollapsible(sql) ==
    [component |-> "Collapsible", title |-> "Generated SQL Query", collapsed |-> TRUE,
     content |-> [component |-> "Code", language |-> "sql", code |-> sql]]

StatItem(label, value, variant) == [label |-> label, value |-> value, variant |-> variant]

\* mutant: the test keys are looked for before deploy_result
DetermineTestFirst(results) ==
    IF results = <<>> THEN "unknown"
    ELSE
    LET first_row == results[1] IN
    IF "test_type" \in DOMAIN first_row \/ "tests_passed" \in DOMAIN first_row THEN "test"
    ELSE IF "deploy_result" \in DOMAIN first_row THEN "deployment"
    ELSE "unknown"

determine_result_type(results) ==
    IF results = <<>> THEN "unknown"
    ELSE
    LET first_row == results[1] IN
    IF "deploy_result" \in DOMAIN first_row THEN "deployment"
    ELSE IF "test_type" \in DOMAIN first_row \/ "tests_passed" \in DOMAIN first_row THEN "test"
    ELSE "unknown"

\* one row of the deployment table
DeploymentTableRow(r) ==
    LET result_status == Get(r, "deploy_result", "UNKNOWN") IN
    [cells |-> << Get(r, "app_name", "N/A"), Get(r, "app_version", "N/A"),
                  Get(r, "deploy_env", "N/A"), result_status, DateStr(r),
                  Get(r, "deployed_by", "N/A") >>,
     variant |-> IF result_status = "SUCCESS" THEN "success"
                 ELSE IF result_status = "FAILURE" THEN "error" ELSE "warning"]

\* the statistics format_deployment_results computes and shows; the rate is
\* kept in tenths of a percent
DeploymentStats(results) ==
    LET total == Len(results)
        successes == CountEq(results, "deploy_result", "SUCCESS", 1)
        failures == CountEq(results, "deploy_result", "FAILURE", 1)
        success_rate == IF total > 0 THEN RoundTenths(successes, total) ELSE 0
    IN  [component |-> "Stats",
         items |-> << StatItem("Total Deployments", ToString(total), "default"),
                      StatItem("Successful", ToString(successes), "success"),
                      StatItem("Failed", ToString(failures), "error"),
                      StatItem("Success Rate",
                               (IF total > 0 THEN TenthsStr(success_rate) ELSE "0") \o "%",
                               IF success_rate >= 900 THEN "success"
                               ELSE IF success_rate >= 700 THEN "warning" ELSE "error") >>]

format_deployment_results(results, sql) ==
    IF results = <<>>
    THEN Alert("info", "No Results", "No deployments found matching your query.")
    ELSE
    LET failures == CountEq(results, "deploy_result", "FAILURE", 1) IN
    Container(
        (IF failures > 0
         THEN << Alert("warning", "Deployment Failures Detected",
                       "Found " \o ToString(failures)
                       \o " failed deployment(s) in the results. Review the table below for details.") >>
         ELSE <<>>)
        \o (IF Truthy(sql) THEN << SqlCollapsible(sql) >> ELSE <<>>)
        \o << DeploymentStats(results),
              [component |-> "Table", title |-> "Deployment Results",
               headers |-> <<"App", "Version", "Environment", "Result", "Date", "Deployed By">>,
               rows |-> [i \in 1..Len(results) |-> DeploymentTableRow(results[i])],
               sortable |-> TRUE, filterable |-> TRUE] >>)

\* one row of the test table
TestTableRow(r) ==
    LET duration == Get(r, "test_duration_seconds", 0) IN
    [cells |-> << Get(r, "app_name", "N/A"), Get(r, "app_version", "N/A"),
                  Get(r, "test_type", "N/A"),
                  ToString(Get(r, "tests_passed", 0)), ToString(Get(r, "tests_failed", 0)),
                  ToString(Get(r, "tests_skipped", 0)),
                  IF duration # 0 THEN ToString(duration) \o "s" ELSE "N/A",
                  DateStr(r) >>,
     variant |-> IF Get(r, "tests_failed", 0) > 0 THEN "error" ELSE "success"]

\* the statistics format_test_results computes and shows
TestStats(results) ==
    LET total_passed == SumOver(results, "tests_passed", 1)
        total_failed == SumOver(results, "tests_failed", 1)
        total_tests == total_passed + total_failed
        total_skipped == SumOver(results, "tests_skipped", 1)
        pass_rate == IF total_tests > 0 THEN RoundTenths(total_passed, total_tests) ELSE 0
    IN  [component |-> "Stats",
         items |-> << StatItem("Test Runs", ToString(Len(results)), "default"),
                      StatItem("Total Tests", ToString(total_tests), "default"),
                      StatItem("Passed", ToString(total_passed), "success"),
                      StatItem("Failed", ToString(total_failed), "error"),
                      StatItem("Skipped", ToString(total_skipped), "warning"),
                      StatItem("Pass Rate",
                               (IF total_tests > 0 THEN TenthsStr(pass_rate) ELSE "0") \o "%",
                               IF pass_rate >= 950 THEN "success"
                               ELSE IF pass_rate >= 800 THEN "warning" ELSE "error") >>]

format_test_results(results, sql) ==
    IF results = <<>>
    THEN Alert("info", "No Results", "No test results found matching your query.")
    ELSE
    LET total_failed == SumOver(results, "tests_failed", 1) IN
    Container(
        (IF total_failed > 0
         THEN << Alert("error", "Test Failures Detected",
                       "Found " \o ToString(total_failed) \o " failed test(s) across "
                       \o ToString(Len(results)) \o " test run(s).") >>
         ELSE <<>>)
        \o (IF Truthy(sql) THEN << SqlCollapsible(sql) >> ELSE <<>>)
        \o << TestStats(results),
              [component |-> "Table", title |-> "Test Results",
               headers |-> <<"App", "Version", "Test Type", "Passed", "Failed", "Skipped",
                             "Duration", "Date">>,
               rows |-> [i \in 1..Len(results) |-> TestTableRow(results[i])],
               sortable |-> TRUE, filterable |-> TRUE] >>)

format_generic_table(results) ==
    IF results = <<>> THEN Alert("info", "No Results", "No results found.")
    ELSE
    LET headers == SelectSeq(Columns, LAMBDA k : k \in DOMAIN results[1]) IN
    [component |-> "Table", title |-> "Results", headers |-> headers,
     rows |-> [i \in 1..Len(results) |->
                 [cells |-> [j \in 1..Len(headers) |->
                               IF headers[j] \in DOMAIN results[i]
                               THEN ValueStr(headers[j], results[i][headers[j]])
                               ELSE "N/A"]]],
     sortable |-> TRUE, filterable |-> TRUE]

\* the component both tools build for a "success" response
FormatWithUi(data) ==
    LET results == Get(data, "results", <<>>)
        sql == Get(data, "sql", None)
        result_type == determine_result_type(results)
    IN  IF result_type = "deployment" THEN format_deployment_results(results, sql)
        ELSE IF result_type = "test" THEN format_test_results(results, sql)
        ELSE format_generic_table(results)

\* what the rich-UI query_cicd_prepare returns for the parsed response body
UiPrepareDispatch(data) ==
    LET status == Get(data, "status", None) IN
    IF status = "success" THEN
        IF Get(data, "cached", FALSE)
        THEN Container(<< Alert("success", "Cache Hit",
                                "Results retrieved from cache. Query has been used "
                                \o Get(data, "use_count", "multiple") \o " times."),
                          FormatWithUi(data) >>)
        ELSE FormatWithUi(data)
    ELSE IF status = "needs_generation" THEN
        [status |-> "needs_generation",
         cached |-> FALSE,
         slots |-> Get(data, "slots", EmptyDict),
         schema |-> Get(data, "schema", EmptyDict),
         cache_key |-> Get(data, "cache_key", None),
         instruction |-> Get(data, "instruction", None),
         message |-> "Please generate SQL using the provided schema and call query_cicd_execute"]
    ELSE IF status = "error" THEN
        AlertWithDetails("error", "Query Error", Get(data, "message", "Unknown error"),
                         LET notes == Get(data, "warnings", <<>>) \o Get(data, "suggestions", <<>>)
                         IN  IF notes = <<>> THEN None ELSE notes)
    ELSE Alert("error", "Unexpected Response", "Unexpected status: " \o PyStr(status))

\* what the rich-UI query_cicd_execute returns for the parsed response body
UiExecuteDispatch(sql, data) ==
    LET status == Get(data, "status", None) IN
    IF status = "success" THEN
        IF Get(data, "cached", FALSE)
        THEN Container(<< Alert("success", "Query Cached",
                                "This query has been cached for faster future access by all team members."),
                          FormatWithUi(data) >>)
        ELSE FormatWithUi(data)
    ELSE IF status = "error" THEN
        AlertWithDetails("error", "SQL Execution Error",
                         Get(data, "message", "SQL execution failed"),
                         "Error Type: " \o Get(data, "error_type", "Unknown")
                         \o "\n\nSQL:\n" \o sql)
    ELSE Alert("error", "Unexpected Response", "Unexpected status: " \o PyStr(status))

UiPrepareExcepts == <<"Timeout", "ConnectionError", "Exception">>
UiExecuteExcepts == <<"Timeout", "Exception">>

\* how an exception raised inside one of the two try blocks ends the call
UiExcept(excepts, exc, timeout_msg, title, generic_prefix) ==
    LET clause == Clause(excepts, exc)
    IN  CASE clause = "Timeout" -> Alert("error", "Timeout", timeout_msg)
          [] clause = "ConnectionError" ->
                Alert("error", "Connection Error",
                      "Could not connect to CI/CD database service. Service may be down.")
          [] clause = "Exception" -> Alert("error", title, generic_prefix \o ExcStr(exc))

\* one invocation of the rich-UI query_cicd_prepare against backend behaviour b
ui_query_cicd_prepare(question, b) ==
    [sent |-> << PrepareRequest(question) >>,
     result |-> Return(IF Thrown(b) = "none" THEN UiPrepareDispatch(b.data)
                       ELSE UiExcept(UiPrepareExcepts, Thrown(b),
                                     "CI/CD database query preparation timed out. Please try again.",
                                     "Error", "Error connecting to CI/CD database: "))]

\* one invocation of the rich-UI query_cicd_execute against backend behaviour b
ui_query_cicd_execute(sql, cache_key, confirm_cache, b) ==
    [sent |-> << ExecuteRequest(sql, cache_key, confirm_cache) >>,
     result |-> Return(IF Thrown(b) = "none" THEN UiExecuteDispatch(sql, b.data)
                       ELSE UiExcept(UiExecuteExcepts, Thrown(b),
                                     "SQL execution timed out. Query may be too complex.",
                                     "Execution Error", "Error executing SQL: "))]

----------------------------------------------------------------------------
(* The rich-UI specification: the backend "success" response drawn at the  *)
(* start is answered by the text variant's query_cicd_execute and by one   *)
(* of the rich-UI variant's tools.                                         *)

RichPrepare ==
    /\ uiOut = NoResult
    /\ \E question \in Questions :
         uiOut' = ui_query_cicd_prepare(question,
                      Ok([status |-> "success", results |-> hit.results,
                          sql |-> hit.sql, cached |-> hit.cached])).result
    /\ UNCHANGED <<last, issued, nCalls, execCalls, execReqs, hit, prepOut, execOut, calls, boot>>

RichExecute ==
    /\ uiOut = NoResult
    /\ \E sql \in SqlTexts, cache_key \in AgentKeys :
         uiOut' = ui_query_cicd_execute(sql, cache_key, TRUE,
                      Ok([status |-> "success", results |-> hit.results,
                          sql |-> hit.sql, cached |-> hit.cached])).result
    /\ UNCHANGED <<last, issued, nCalls, execCalls, execReqs, hit, prepOut, execOut, calls, boot>>

NextRich == ShapeExecute \/ RichPrepare \/ RichExecute

SpecRich == InitShape /\ [][NextRich]_vars

----------------------------------------------------------------------------
(* Vocabulary of the properties *)

CicdTools == {"query_cicd_prepare", "query_cicd_execute"}

Called == last.tool # "none"

\* the status field of the backend's 2xx body, None when there is no such body
\* or no such field
BackendStatus ==
    IF Thrown(last.backend) = "none" THEN Get(last.backend.data, "status", None) ELSE None

\* the last invocation was of a CI/CD tool and returned a payload of this status
ReturnedStatus(status) ==
    /\ last.tool \in CicdTools
    /\ last.result.kind = "return"
    /\ last.result.value.status = status

\* the request timed out: connect timeout or read timeout
TimedOut == Called /\ "Timeout" \in Ancestors(Thrown(last.backend))

\* the error text the last invocation returned: the error field of a CI/CD
\* payload, the message of a retrieval tool
ErrorText ==
    IF last.tool \in CicdTools THEN last.result.value.error ELSE last.result.value[1]

ConfiguredTimeout(tool) == IF tool \in CicdTools THEN NL2SQL_TIMEOUT ELSE RAG_TIMEOUT

\* what the tool returns for a connection failure that is no timeout
ConnectionFailureText(tool) ==
    CASE tool \in CicdTools -> CICD_CONNECT_MSG
      [] tool = "search_knowledge_base" -> SEARCH_CONNECT_MSG
      [] tool = "submit_feedback" -> FEEDBACK_CONNECT_MSG

\* what the tool's catch-all clause returns for exception exc
GenericFailureText(tool, exc) ==
    CASE tool = "query_cicd_prepare" -> "Error preparing CI/CD query: " \o ExcStr(exc)
      [] tool = "query_cicd_execute" -> "Error executing SQL: " \o ExcStr(exc)
      [] tool = "search_knowledge_base" ->
            "ERROR: Failed to search knowledge base: " \o ExcStr(exc)
      [] tool = "submit_feedback" -> "ERROR: Failed to submit feedback: " \o ExcStr(exc)

----------------------------------------------------------------------------
(* C1 *)

\* C1 as stated: a "success" payload is returned only by a prepare call whose
\* backend response had status "success", or by an execute call made after some
\* earlier prepare call returned an ACTION_REQUIRED directive; and a backend
\* response with status "needs_generation" is never answered with "success".
C1_SuccessNeedsEarlierDirective ==
    /\ ReturnedStatus("success") =>
          \/ last.tool = "query_cicd_prepare" /\ BackendStatus = "success"
          \/ last.tool = "query_cicd_execute" /\ issued # {}
    /\ (last.tool \in CicdTools /\ BackendStatus = "needs_generation")
          => ~ReturnedStatus("success")

\* C1 amended: a CI/CD tool returns a "success" payload only if the backend's
\* response to that same call (prepare or execute) had status "success",
\* whatever calls came before; and a backend response with status
\* "needs_generation" is never answered with "success".
C1_SuccessOnlyFromBackendSuccess ==
    /\ ReturnedStatus("success") => BackendStatus = "success"
    /\ (last.tool \in CicdTools /\ BackendStatus = "needs_generation")
          => ~ReturnedStatus("success")

\* an execute call returned "success" although no directive was ever returned
C1_Witness ==
    /\ last.tool = "query_cicd_execute"
    /\ ReturnedStatus("success")
    /\ issued = {}

----------------------------------------------------------------------------
(* C2 *)

----------------------------------------------------------------------------
(* C3 *)

\* C3: every execute invocation sends one request to the execute endpoint
\* whose body carries the cache_key, sql and confirm_cache arguments exactly
\* as supplied, for any key, in particular for a key a directive returned.
C3_CacheKeyRoundTrip ==
    last.tool = "query_cicd_execute" =>
        /\ Len(last.sent) = 1
        /\ last.sent[1].url = NL2SQL_EXECUTE_URL
        /\ last.sent[1].json.cache_key = last.args.cache_key
        /\ last.sent[1].json.sql = last.args.sql
        /\ last.sent[1].json.confirm_cache = last.args.confirm_cache

\* a key a directive returned was passed to execute and sent on
C3_Witness ==
    /\ last.tool = "query_cicd_execute"
    /\ last.args.cache_key = " K2 "
    /\ last.args.cache_key \in issued
    /\ last.sent[1].json.cache_key = " K2 "

----------------------------------------------------------------------------
(* C4 *)

\* C4: for the same backend results list, the "success" payloads of prepare
\* and of execute have the same set of fields, the same summary and the same
\* formatted_results.
C4_SameSuccessShape ==
    (prepOut # NoResult /\ execOut # NoResult) =>
        /\ prepOut.kind = "return" /\ execOut.kind = "return"
        /\ prepOut.value.status = "success" /\ execOut.value.status = "success"
        /\ DOMAIN prepOut.value = DOMAIN execOut.value
        /\ prepOut.value.summary = execOut.value.summary
        /\ prepOut.value.formatted_results = execOut.value.formatted_results
        /\ prepOut.value.results = execOut.value.results

\* both phases answered a two-row deployment list
C4_Witness ==
    /\ prepOut # NoResult /\ execOut # NoResult
    /\ hit.results = << DeployOk, DeployFail >>
    /\ execOut.value.summary.type = "deployment"

----------------------------------------------------------------------------
(* C5 *)

\* C5 as stated: every invocation of every tool, against every backend
\* behaviour, ends by returning; none ends with an exception propagating.
C5_EveryInvocationReturns == Called => last.result.kind = "return"

----------------------------------------------------------------------------
(* C6 *)

\* C6: when the prepare request times out (connect timeout included),
\* query_cicd_prepare returns status "error" with the timeout message, never
\* the connection-failure message.
C6_PrepareTimeoutNotConnection ==
    (last.tool = "query_cicd_prepare" /\ TimedOut) =>
        /\ last.result = Return([status |-> "error", error |-> PREPARE_TIMEOUT_MSG])
        /\ last.result.value.error # CICD_CONNECT_MSG

\* a connect timeout on prepare was answered
C6_Witness ==
    /\ last.tool = "query_cicd_prepare"
    /\ Thrown(last.backend) = "ConnectTimeout"
    /\ last.result.kind = "return"

----------------------------------------------------------------------------
(* C7 *)

\* C7 as stated: every request is issued with the configured timeout, and when
\* the request times out the tool returns an error that is neither its
\* connection-failure error nor its generic transport error.
C7_TimeoutSpecificError ==
    Called =>
        /\ \A i \in 1..Len(last.sent) : last.sent[i].timeout = ConfiguredTimeout(last.tool)
        /\ TimedOut =>
              /\ last.result.kind = "return"
              /\ ErrorText # ConnectionFailureText(last.tool)
              /\ ErrorText # GenericFailureText(last.tool, Thrown(last.backend))

----------------------------------------------------------------------------
(* C8 *)

\* the invocation met a failure: a transport exception, a 4xx/5xx response, or
\* a backend status "error"
Failed ==
    /\ Called
    /\ \/ Thrown(last.backend) # "none"
       \/ last.tool \in CicdTools /\ BackendStatus = "error"

\* C8: every invocation issues at most one HTTP request; after a failure it has
\* issued exactly one and returns the error.
C8_NoRetry ==
    Called =>
        /\ Len(last.sent) <= 1
        /\ Failed =>
              /\ Len(last.sent) = 1
              /\ last.result.kind = "return"
              /\ last.tool \in CicdTools => last.result.value.status = "error"

\* a prepare request timed out and was not repeated
C8_Witness ==
    /\ last.tool = "query_cicd_prepare"
    /\ Thrown(last.backend) = "ReadTimeout"
    /\ Len(last.sent) = 1

----------------------------------------------------------------------------
(* C9 *)

\* C9: for every (sql, cache_key) pair, the number of execute requests sent
\* with that pair equals the number of execute invocations made with it.
C9_NoDeduplication == \A p \in Pairs : execReqs[p] = execCalls[p]

\* the same pair was submitted twice, and two requests carried it
C9_Witness == \E p \in Pairs : execCalls[p] = 2 /\ execReqs[p] = 2

----------------------------------------------------------------------------
(* C10 *)

\* C10 as stated: a 4xx/5xx response is returned as an error carrying the
\* status code and, when the response has a body, the backend's detail: the
\* body text in the details field for prepare and execute, the JSON "detail"
\* field or the body text for search and feedback.
C10_HttpErrorCarriesDetail ==
    (Called /\ Thrown(last.backend) = "HTTPError") =>
        /\ last.result.kind = "return"
        /\ last.tool \in CicdTools =>
              /\ last.result.value.status = "error"
              /\ last.result.value.error =
                    "CI/CD database service returned error: " \o ToString(last.backend.code)
              /\ last.backend.text # "" => last.result.value.details = last.backend.text
        /\ last.tool = "search_knowledge_base" =>
              last.result.value =
                  << "ERROR: RAG service returned error (" \o ToString(last.backend.code)
                     \o "): " \o ErrorDetail(last.backend.text) >>
        /\ last.tool = "submit_feedback" =>
              last.result.value =
                  << "ERROR: Feedback submission failed (" \o ToString(last.backend.code)
                     \o "): " \o ErrorDetail(last.backend.text) >>

----------------------------------------------------------------------------
(* C11 *)

\* what an error text tells the caller to expect, read off the texts the four
\* tools return for a timeout or a connection failure: "retry" when the text
\* says that trying again may help, "service_down" when it says that the
\* service may be down or not running
Hints(text) ==
    CASE text = PREPARE_TIMEOUT_MSG -> {"retry"}            \* "Please try again."
      [] text = SEARCH_TIMEOUT_MSG -> {"retry", "service_down"}
                    \* "Try a simpler query or check if the service is running."
      [] text = CICD_CONNECT_MSG -> {"service_down"}        \* "Service may be down."
      [] text = SEARCH_CONNECT_MSG -> {"service_down"}      \* "Ensure the service is running"
      [] OTHER -> {}
            \* "SQL execution timed out. Query may be too complex.",
            \* "ERROR: Could not connect to RAG Testing Pipeline to submit feedback.",
            \* "ERROR: Failed to submit feedback: ..." say neither

\* the request failed to connect and did not time out
ConnectionFailed ==
    /\ Called
    /\ "ConnectionError" \in Ancestors(Thrown(last.backend))
    /\ ~TimedOut

\* C11 as stated: in each of the four tools, the error returned on a timeout
\* says that retrying may help, and the error returned on a connection failure
\* says that the service may be down.
C11_TimeoutSaysRetryConnectionSaysDown ==
    /\ TimedOut => (last.result.kind = "return" /\ "retry" \in Hints(ErrorText))
    /\ ConnectionFailed =>
          (last.result.kind = "return" /\ "service_down" \in Hints(ErrorText))

----------------------------------------------------------------------------
(* C12 *)

\* C12: for a backend prepare response with status "error", query_cicd_prepare
\* returns status "error" whose error, warnings and suggestions fields are the
\* backend's message, warnings and suggestions as they are ("Unknown error",
\* [] and [] only for a field the backend omitted), having sent the one
\* prepare request and no other.
C12_PrepareErrorVerbatim ==
    (last.tool = "query_cicd_prepare" /\ BackendStatus = "error") =>
        LET data == last.backend.data
            payload == last.result.value
        IN  /\ last.result.kind = "return"
            /\ DOMAIN payload = {"status", "error", "warnings", "suggestions"}
            /\ payload.status = "error"
            /\ payload.error =
                  IF "message" \in DOMAIN data THEN data.message ELSE "Unknown error"
            /\ payload.warnings =
                  IF "warnings" \in DOMAIN data THEN data.warnings ELSE <<>>
            /\ payload.suggestions =
                  IF "suggestions" \in DOMAIN data THEN data.suggestions ELSE <<>>
            /\ Len(last.sent) = 1
            /\ last.sent[1].url = NL2SQL_PREPARE_URL

\* a backend validation error with a message, a warning and a suggestion was
\* answered
C12_Witness ==
    /\ last.tool = "query_cicd_prepare"
    /\ BackendStatus = "error"
    /\ "warnings" \in DOMAIN last.backend.data
    /\ last.result.value.error = "Ambiguous application name"
    /\ last.result.value.warnings = << "no time range given" >>
    /\ last.result.value.suggestions = << "name the application" >>

----------------------------------------------------------------------------
(* C13 *)

\* C13: for a backend execute response with status "error", query_cicd_execute
\* returns status "error" carrying the backend's message and error_type and a
\* sql field equal to the SQL text the caller submitted, whatever SQL the
\* backend's body holds; the one request it sent carried the SQL as submitted.
C13_ExecuteErrorEchoesSubmittedSql ==
    (last.tool = "query_cicd_execute" /\ BackendStatus = "error") =>
        LET data == last.backend.data
            payload == last.result.value
        IN  /\ last.result.kind = "return"
            /\ payload.status = "error"
            /\ "message" \in DOMAIN data => payload.error = data.message
            /\ "error_type" \in DOMAIN data => payload.error_type = data.error_type
            /\ payload.sql = last.args.sql
            /\ Len(last.sent) = 1
            /\ last.sent[1].json.sql = last.args.sql

\* the backend's error body held another SQL text than the one submitted
C13_Witness ==
    /\ last.tool = "query_cicd_execute"
    /\ BackendStatus = "error"
    /\ "sql" \in DOMAIN last.backend.data
    /\ last.backend.data.sql # last.args.sql
    /\ last.result.value.sql = "SELECT * FROM deployment_data"
    /\ last.result.value.error_type = "SQLSyntaxError"

----------------------------------------------------------------------------
(* C14 *)

\* the status values a tool's dispatch recognises
Recognised(tool) ==
    IF tool = "query_cicd_prepare" THEN {"success", "needs_generation", "error"}
    ELSE {"success", "error"}

\* the backend answered 2xx with a status the tool does not recognise, or with
\* no status field
UnrecognisedStatus ==
    /\ last.tool \in CicdTools
    /\ Thrown(last.backend) = "none"
    /\ BackendStatus \notin Recognised(last.tool)

\* C14: for a backend status outside the recognised set, an absent status
\* included, the tool returns status "error" whose message ends with the
\* unexpected value as Python prints it (None for an absent field); it returns
\* neither a "success" payload nor an ACTION_REQUIRED directive.
C14_UnexpectedStatusIsError ==
    UnrecognisedStatus =>
        /\ last.result.kind = "return"
        /\ last.result.value.status = "error"
        /\ last.result.value.error =
              "Unexpected status: "
              \o (IF "status" \in DOMAIN last.backend.data
                  THEN last.backend.data.status ELSE "None")
        /\ ~ReturnedStatus("success")
        /\ ~IsDirective(last.result)

\* execute met the status "needs_generation", which only prepare recognises
C14_Witness ==
    /\ last.tool = "query_cicd_execute"
    /\ BackendStatus = "needs_generation"
    /\ last.result.value.error = "Unexpected status: needs_generation"

----------------------------------------------------------------------------
(* C15 *)

\* the summaries the two phases returned for hit
ShapeSummaries ==
    {out.value.summary : out \in {prepOut, execOut} \ {NoResult}}

\* _add_summary_stats classifies by the first row
DeploymentShaped(results) ==
    results # <<>> /\ "deploy_result" \in DOMAIN results[1]

TestShaped(results) ==
    /\ results # <<>>
    /\ ~DeploymentShaped(results)
    /\ "tests_passed" \in DOMAIN results[1] \/ "test_type" \in DOMAIN results[1]

\* the rows of results that hold value under key
RowsWith(results, key, value) ==
    {i \in 1..Len(results) : key \in DOMAIN results[i] /\ results[i][key] = value}

\* rate is the text of 100 * num / den rounded to one decimal, followed by "%":
\* the tenth t it shows is a nearest one, |t/10 - 100 * num / den| <= 1/20
ShowsRate(rate, num, den) ==
    \E t \in 0..1000 :
        /\ rate = TenthsStr(t) \o "%"
        /\ 2 * (t * den - 1000 * num) <= den
        /\ 2 * (1000 * num - t * den) <= den

\* C15: for a non-empty deployment-shaped result list, total is the number of
\* rows, successes the number of rows with deploy_result "SUCCESS", failures
\* the number with "FAILURE", success_rate is 100 * successes / total rounded
\* to one decimal (shown with a percent sign), and successes + failures <= total:
\* a row with another deploy_result, or none, is in total and in neither bucket.
C15_DeploymentSummary ==
    \A summary \in ShapeSummaries :
        DeploymentShaped(hit.results) =>
            /\ summary.type = "deployment"
            /\ summary.total = Len(hit.results)
            /\ summary.successes =
                  Cardinality(RowsWith(hit.results, "deploy_result", "SUCCESS"))
            /\ summary.failures =
                  Cardinality(RowsWith(hit.results, "deploy_result", "FAILURE"))
            /\ ShowsRate(summary.success_rate, summary.successes, summary.total)
            /\ summary.successes + summary.failures <= summary.total

\* a deployment list with a pending row and a row without deploy_result was
\* summarised: one success of three rows
C15_Witness ==
    /\ hit.results = << DeployOk, DeployPending, TestBare >>
    /\ prepOut # NoResult
    /\ prepOut.value.summary.total = 3
    /\ prepOut.value.summary.successes = 1
    /\ prepOut.value.summary.failures = 0
    /\ prepOut.value.summary.success_rate = "33.3%"

----------------------------------------------------------------------------
(* C16 *)

RECURSIVE Total(_, _)
\* the sum over the rows of the value under key, a row without the key adding 0
Total(results, key) ==
    IF results = <<>> THEN 0
    ELSE (IF key \in DOMAIN Head(results) THEN Head(results)[key] ELSE 0)
         + Total(Tail(results), key)

\* C16: for a test-shaped result list, passed and failed are the sums of
\* tests_passed and tests_failed over all rows, a missing key counting as 0;
\* pass_rate is 100 * passed / (passed + failed) rounded to one decimal (shown
\* with a percent sign), and 0 when passed + failed = 0.
C16_TestSummary ==
    \A summary \in ShapeSummaries :
        TestShaped(hit.results) =>
            /\ summary.type = "test"
            /\ summary.passed = Total(hit.results, "tests_passed")
            /\ summary.failed = Total(hit.results, "tests_failed")
            /\ summary.total_tests = summary.passed + summary.failed
            /\ IF summary.passed + summary.failed = 0
               THEN summary.pass_rate = "0%"
               ELSE ShowsRate(summary.pass_rate, summary.passed,
                              summary.passed + summary.failed)

\* a test list without a single test was summarised
C16_Witness ==
    /\ hit.results = << TestBare >>
    /\ execOut # NoResult
    /\ execOut.value.summary.passed + execOut.value.summary.failed = 0
    /\ execOut.value.summary.pass_rate = "0%"

----------------------------------------------------------------------------
(* C17 *)

\* the prepare endpoint answered "success" with two deployment rows, one with
\* deploy_result "SUCCESS" and one with "FAILURE"
OneSuccessOneFailure ==
    /\ last.tool = "query_cicd_prepare"
    /\ BackendStatus = "success"
    /\ "results" \in DOMAIN last.backend.data
    /\ LET results == last.backend.data.results
       IN  /\ Len(results) = 2
           /\ \A i \in 1..2 : "deploy_result" \in DOMAIN results[i]
           /\ \E i, j \in 1..2 : /\ results[i].deploy_result = "SUCCESS"
                                 /\ results[j].deploy_result = "FAILURE"

\* C17: in that scenario query_cicd_prepare returns a summary with total 2,
\* successes 1, failures 1 and success_rate "50.0%", and formatted_results
\* whose first line is the header "Found 2 deployments: 1 successful, 1 failed
\* (50.0% success rate)" set in bold.
C17_TwoDeploymentsScenario ==
    OneSuccessOneFailure =>
        LET payload == last.result.value IN
        /\ last.result.kind = "return"
        /\ payload.status = "success"
        /\ payload.summary.total = 2
        /\ payload.summary.successes = 1
        /\ payload.summary.failures = 1
        /\ payload.summary.success_rate = "50.0%"
        /\ payload.formatted_results[1] =
              "**" \o "Found 2 deployments: 1 successful, 1 failed (50.0% success rate)"
              \o "**"

\* the scenario's question was answered from the cache with the two rows
C17_Witness ==
    /\ OneSuccessOneFailure
    /\ last.args.question = "Show me deployments for frontend in the last week"
    /\ last.backend.data.results = << DeployOk, DeployFail >>
    /\ last.result.value.summary.type = "deployment"
    /\ Len(last.result.value.formatted_results) = 14

----------------------------------------------------------------------------
(* C18 *)

\* the retrieval backend answered 2xx, and this is the chunk list of its body
\* (the empty list when the body has no chunks field)
BackendChunks == Get(last.backend.data, "chunks", <<>>)

SearchAnswered ==
    last.tool = "search_knowledge_base" /\ Thrown(last.backend) = "none"

\* C18: when the retrieval backend answers 2xx with no chunks, the chunks list
\* empty or absent, search_knowledge_base returns the one line "No relevant
\* information found in the knowledge base for this query." and nothing else.
C18_NoChunksFixedString ==
    (SearchAnswered /\ BackendChunks = <<>>) =>
        last.result =
            Return(<< "No relevant information found in the knowledge base for this query." >>)

\* an empty chunk list came with a query id and metrics, and none was emitted
C18_Witness ==
    /\ SearchAnswered
    /\ "chunks" \in DOMAIN last.backend.data
    /\ last.backend.data.chunks = <<>>
    /\ "query_id" \in DOMAIN last.backend.data
    /\ Len(last.result.value) = 1

----------------------------------------------------------------------------
(* C19 *)

\* the sources-list line of a chunk: citation, title, the URL when the chunk
\* has a non-empty one, and the relevance score to three decimals
SourcesLineOf(chunk) ==
    LET head == chunk.citation \o " " \o chunk.title
        tail == " (relevance: " \o ScoreStr(chunk.score) \o ")"
    IN  IF "url" \in DOMAIN chunk /\ chunk.url # ""
        THEN head \o " - " \o chunk.url \o tail
        ELSE head \o tail

\* C19 as stated: for every non-empty chunk list of the backend, the text
\* returned has, after the heading, one content block per chunk and, under
\* "# SOURCES", one line per chunk, both in the backend's order and labelled
\* with the chunk's citation; a sources line has the URL exactly when the chunk
\* has a non-empty url; the last two lines carry the backend's query_id and
\* the chunk count with the latency.
C19_BlocksAndSourcesPerChunk ==
    (SearchAnswered /\ BackendChunks # <<>>) =>
        /\ last.result.kind = "return"
        /\ LET chunks == BackendChunks
               n == Len(chunks)
               lines == last.result.value
               data == last.backend.data
           IN  /\ Len(lines) = 5 * n + 7
               /\ lines[1] = "# Retrieved Information"
               /\ \A k \in 1..n :
                     /\ lines[4 * k - 1] = chunks[k].citation \o " " \o chunks[k].title
                     /\ lines[4 * k] = "Content:"
                     /\ lines[4 * k + 1] = chunks[k].content
               /\ lines[4 * n + 4] = "# SOURCES"
               /\ \A k \in 1..n : lines[4 * n + 4 + k] = SourcesLineOf(chunks[k])
               /\ lines[5 * n + 6] =
                     "Query ID: " \o Get(data, "query_id", "") \o " (use this for feedback)"
               /\ lines[5 * n + 7] =
                     "Retrieved " \o ToString(n) \o " chunks in "
                     \o ToString(Get(Get(data, "metrics", EmptyDict), "latency_ms", 0))
                     \o "ms"

----------------------------------------------------------------------------
(* C20 *)

\* the one request of a search invocation has retrieve_only = true, the
\* caller's query and the caller's top_k
SearchRequestCarriesArgs ==
    /\ Len(last.sent) = 1
    /\ last.sent[1].url = RAG_URL
    /\ last.sent[1].json.retrieve_only = TRUE
    /\ last.sent[1].json.query = last.args.query
    /\ last.sent[1].json.top_k = last.args.top_k

----------------------------------------------------------------------------
(* C21 *)

\* the backend's final response had a 2xx status code
Answered2xx ==
    /\ last.backend.kind = "response"
    /\ 200 <= last.backend.code /\ last.backend.code < 300

\* the error texts submit_feedback returns, each beginning "ERROR:"
FeedbackErrorTexts ==
    {"ERROR: " \o rest :
        rest \in {"Could not connect to RAG Testing Pipeline to submit feedback."}
                 \cup {"Feedback submission failed (" \o ToString(b.code) \o "): "
                       \o ErrorDetail(b.text) : b \in ErrorResponses}
                 \cup {"Failed to submit feedback: " \o ExcStr(b.exc) : b \in PostRaises}}

\* C21 as stated: submit_feedback sends query_id, score and comment to the
\* feedback endpoint unchanged, for scores outside 0..10 too; it returns the
\* confirmation naming that score and query_id exactly when the backend
\* answered 2xx, and an ERROR message otherwise.
C21_FeedbackForwardedAndConfirmed ==
    last.tool = "submit_feedback" =>
        /\ Len(last.sent) = 1
        /\ last.sent[1].url = FEEDBACK_URL
        /\ last.sent[1].json = [query_id |-> last.args.query_id,
                                score |-> last.args.score,
                                comment |-> last.args.comment]
        /\ last.result.kind = "return"
        /\ Len(last.result.value) = 1
        /\ IF Answered2xx
           THEN last.result.value[1] =
                    "Feedback submitted successfully: " \o ToString(last.args.score)
                    \o "/10 for query " \o last.args.query_id
           ELSE last.result.value[1] \in FeedbackErrorTexts

----------------------------------------------------------------------------
(* C22 *)

\* the error texts search_knowledge_base returns, each beginning "ERROR:"
SearchErrorTexts ==
    {"ERROR: " \o rest :
        rest \in {"Knowledge base search timed out after 30s. The RAG service is taking too long. Try a simpler query or check if the service is running.",
                  "Could not connect to RAG Testing Pipeline. Ensure the service is running with 'docker-compose up -d'."}
                 \cup {"RAG service returned error (" \o ToString(b.code) \o "): "
                       \o ErrorDetail(b.text) : b \in ErrorResponses}
                 \cup {"Failed to search knowledge base: " \o ExcStr(b.exc) : b \in PostRaises}}

\* C22 as stated: in every outcome search_knowledge_base returns a string: the
\* formatted retrieval block, the fixed no-results message, or a one-line
\* message beginning "ERROR:" when the request failed.
C22_SearchAlwaysReturnsText ==
    last.tool = "search_knowledge_base" =>
        /\ last.result.kind = "return"
        /\ IF Thrown(last.backend) # "none"
           THEN Len(last.result.value) = 1 /\ last.result.value[1] \in SearchErrorTexts
           ELSE \/ last.result.value = << NO_RESULTS_MSG >>
                \/ last.result.value[1] = "# Retrieved Information"

----------------------------------------------------------------------------
(* C23 *)

----------------------------------------------------------------------------
(* C24 *)

\* the "success" payloads the two phases returned for hit
ShapePayloads == {out.value : out \in {prepOut, execOut} \ {NoResult}}

\* the summary line, without its bold marks, for a list summarised as summary
HeaderText(results, summary) ==
    LET type == Get(summary, "type", "generic") IN
    CASE type = "deployment" ->
            "Found " \o ToString(summary.total) \o " deployments: "
            \o ToString(summary.successes) \o " successful, "
            \o ToString(summary.failures) \o " failed ("
            \o summary.success_rate \o " success rate)"
      [] type = "test" ->
            "Found " \o ToString(summary.test_runs) \o " test runs: "
            \o ToString(summary.total_tests) \o " total tests, "
            \o ToString(summary.passed) \o " passed, "
            \o ToString(summary.failed) \o " failed ("
            \o summary.pass_rate \o " pass rate)"
      [] OTHER -> "Found " \o ToString(Len(results)) \o " results"

\* the entry numbered i that describes row r under a shape
EntryLines(type, i, r) ==
    CASE type = "deployment" -> DeploymentEntry(i, r)
      [] type = "test" -> TestEntry(i, r)
      [] OTHER -> GenericEntry(i, r)

RECURSIVE EntriesFrom(_, _, _)
\* the entries of rows i, i + 1, ... of results, each numbered with its row's
\* position and ending with a blank line
EntriesFrom(type, results, i) ==
    IF i > Len(results) THEN <<>>
    ELSE EntryLines(type, i, results[i]) \o EntriesFrom(type, results, i + 1)

\* the text is a bold summary line, a blank line, and one entry per row in the
\* order of the rows
SummaryLineThenEntryPerRow(payload) ==
    LET lines == payload.formatted_results
        type == Get(payload.summary, "type", "generic")
    IN  /\ lines[1] = "**" \o HeaderText(hit.results, payload.summary) \o "**"
        /\ Len(lines) >= 2
        /\ lines[2] = ""
        /\ SubSeq(lines, 3, Len(lines)) = EntriesFrom(type, hit.results, 1)
        /\ \A i \in 1..Len(hit.results) :
              LET entry == EntryLines(type, i, hit.results[i])
              IN  entry[Len(entry)] = ""

\* the two phases, given the same list, return the same text, and both return
\* the list itself
SameTextSameList ==
    /\ \A payload \in ShapePayloads : payload.results = hit.results
    /\ (prepOut # NoResult /\ execOut # NoResult) =>
          prepOut.value.formatted_results = execOut.value.formatted_results

\* C24 as stated: for every result list the formatted text is a bold summary
\* line followed by exactly one numbered entry per row, entry i describing the
\* i-th row of the backend's list, each entry followed by a blank line; the
\* same input gives the same text, and the payload's results are the
\* backend's list unmodified.
C24_EveryListFormattedPerRow ==
    /\ \A payload \in ShapePayloads : SummaryLineThenEntryPerRow(payload)
    /\ SameTextSameList

\* C24 amended: the same for every non-empty result list; for the empty list
\* the text is the one line "No results found.", with no summary line.
C24_NonEmptyListFormattedPerRow ==
    /\ \A payload \in ShapePayloads :
          IF hit.results = <<>>
          THEN payload.formatted_results = << "No results found." >>
          ELSE SummaryLineThenEntryPerRow(payload)
    /\ SameTextSameList

\* a list whose rows are not in any sorted order was formatted by both phases
C24_Witness ==
    /\ hit.results = << DeployFail, TestRun, DeployOk >>
    /\ prepOut # NoResult /\ execOut # NoResult
    /\ Len(execOut.value.formatted_results) = 20
    /\ execOut.value.formatted_results[15] = "3. **frontend** 1.4.0"

----------------------------------------------------------------------------
(* C25 *)

\* the startup of the server process has ended
ServerStartupEnded ==
    /\ boot.phase \in {"crashed", "registered"}
    /\ boot.entry.script = "server.py"

\* C25 as stated: once the server's startup has ended, the server is up and
\* exposes the four tools under their declared names: search_knowledge_base,
\* submit_feedback, query_cicd_prepare and query_cicd_execute.
C25_ServerExposesFourTools ==
    ServerStartupEnded =>
        /\ boot.phase = "registered"
        /\ {"search_knowledge_base", "submit_feedback",
            "query_cicd_prepare", "query_cicd_execute"} \subseteq boot.exposed

----------------------------------------------------------------------------
(* C26 *)

\* the shape the keys of a row stand for
ShapeOfKeys(keys) ==
    IF "deploy_result" \in keys THEN "deployment"
    ELSE IF "tests_passed" \in keys \/ "test_type" \in keys THEN "test"
    ELSE "generic"

\* C26: the shape of a non-empty result list is decided by the keys of its
\* first row alone: deployment if it has deploy_result, whatever else it has;
\* otherwise test if it has tests_passed or test_type; otherwise generic.  The
\* summary has that type, and the header and every entry, those of later rows
\* with other keys included, are formatted under that one shape.
C26_ShapeFromFirstRow ==
    \A payload \in ShapePayloads :
        hit.results # <<>> =>
            LET shape == ShapeOfKeys(DOMAIN hit.results[1])
                lines == payload.formatted_results
            IN  /\ payload.summary.type = shape
                /\ shape = "deployment" <=> "total" \in DOMAIN payload.summary
                /\ shape = "test" <=> "test_runs" \in DOMAIN payload.summary
                /\ shape = "generic" <=> "row_count" \in DOMAIN payload.summary
                /\ lines[1] = "**" \o HeaderText(hit.results, payload.summary) \o "**"
                /\ SubSeq(lines, 3, Len(lines)) = EntriesFrom(shape, hit.results, 1)

\* a list whose first row has deploy_result and tests_passed, followed by a
\* test row, was summarised and formatted as deployments
C26_Witness ==
    /\ hit.results = << DeployWithTests, TestRun >>
    /\ prepOut # NoResult
    /\ prepOut.value.summary.type = "deployment"
    /\ prepOut.value.formatted_results[9] = "2. **api** N/A"
    /\ prepOut.value.formatted_results[10] = "   - Environment: N/A"

----------------------------------------------------------------------------
(* C27 *)

\* the backend reported "success" with an empty results list or with none
SuccessWithoutRows ==
    /\ last.tool \in CicdTools
    /\ BackendStatus = "success"
    /\ Get(last.backend.data, "results", <<>>) = <<>>

\* C27: when the backend reports "success" with an empty or absent results
\* list, prepare and execute alike return status "success" with results = [],
\* summary = {} (no type, count or rate) and formatted_results exactly
\* "No results found.".
C27_EmptySuccess ==
    SuccessWithoutRows =>
        /\ last.result.kind = "return"
        /\ last.result.value.status = "success"
        /\ last.result.value.results = <<>>
        /\ DOMAIN last.result.value.summary = {}
        /\ last.result.value.formatted_results = << "No results found." >>

\* execute answered a "success" body that has no results field
C27_Witness ==
    /\ SuccessWithoutRows
    /\ last.tool = "query_cicd_execute"
    /\ "results" \notin DOMAIN last.backend.data
    /\ last.result.value.formatted_results = << "No results found." >>

----------------------------------------------------------------------------
(* C28 *)

\* the glyph the result line of a deployment entry carries: the line is
\* "   - Result: <glyph> <deploy_result or N/A>"
CarriesGlyph(line, glyph, row) ==
    line = "   - Result: " \o glyph \o " " \o Get(row, "deploy_result", "N/A")

\* the entries of a deployment block whose result line (the third line of the
\* six-line entry) carries the glyph
EntriesWithGlyph(lines, glyph) ==
    {i \in 1..Len(hit.results) : CarriesGlyph(lines[6 * i - 1], glyph, hit.results[i])}

\* C28: in a deployment-shaped block an entry carries the pass glyph exactly
\* when its row's deploy_result is "SUCCESS" and the fail glyph in every other
\* case; the pass-glyph entries number the header's successes, the fail-glyph
\* entries total - successes, which is the header's failures when every row's
\* deploy_result is "SUCCESS" or "FAILURE".
C28_GlyphsMatchCounts ==
    \A payload \in ShapePayloads :
        DeploymentShaped(hit.results) =>
            LET lines == payload.formatted_results
                summary == payload.summary
                passing == EntriesWithGlyph(lines, PASS_GLYPH)
                failing == EntriesWithGlyph(lines, FAIL_GLYPH)
                succeeded == RowsWith(hit.results, "deploy_result", "SUCCESS")
                failed == RowsWith(hit.results, "deploy_result", "FAILURE")
            IN  /\ passing = succeeded
                /\ failing = (1..Len(hit.results)) \ succeeded
                /\ Cardinality(passing) = summary.successes
                /\ Cardinality(failing) = summary.total - summary.successes
                /\ succeeded \cup failed = 1..Len(hit.results)
                      => Cardinality(failing) = summary.failures

\* a block with a pending deployment: two crosses, one failure in the header
C28_Witness ==
    /\ hit.results = << DeployOk, DeployPending, DeployFail >>
    /\ execOut # NoResult
    /\ execOut.value.summary.failures = 1
    /\ Cardinality(EntriesWithGlyph(execOut.value.formatted_results, FAIL_GLYPH)) = 2
    /\ execOut.value.formatted_results[11] = "   - Result: (x) PENDING"

----------------------------------------------------------------------------
(* C29 *)

\* the component a tool of the rich-UI variant built for the results, without
\* the container and the success alert the tool puts around it for a cached
\* response
Unwrapped(c) ==
    IF /\ c.component = "Container"
       /\ c.components[1].component = "Alert"
       /\ c.components[1].variant = "success"
    THEN c.components[2] ELSE c

\* which formatter built the component: the title of the table it ends with
BuiltFor(c) ==
    LET u == Unwrapped(c) IN
    IF u.component # "Container" THEN "unknown"
    ELSE LET table == u.components[Len(u.components)]
         IN  IF table.title = "Deployment Results" THEN "deployment"
             ELSE IF table.title = "Test Results" THEN "test" ELSE "unknown"

\* the value shown under label in the statistics of a component
Shown(c, label) ==
    LET parts == Unwrapped(c).components
        items == parts[CHOOSE i \in 1..Len(parts) : parts[i].component = "Stats"].items
    IN  items[CHOOSE i \in 1..Len(items) : items[i].label = label].value

\* both variants have answered the response
BothAnswered == execOut # NoResult /\ uiOut # NoResult

\* C29: for every result list the rich-UI variant and the text variant agree:
\* determine_result_type says "deployment" / "test" exactly when the summary of
\* _add_summary_stats has that type, and "unknown" when the summary is generic
\* or empty; the statistics the rich-UI formatter shows are the summary's
\* total, successes, failures and success rate, or its test runs, total
\* tests, passed, failed and pass rate.
C29_RichAgreesWithText ==
    BothAnswered =>
        LET summary == execOut.value.summary
            text_type == Get(summary, "type", None)
            rich_type == determine_result_type(hit.results)
            ui == uiOut.value
        IN  /\ rich_type = "deployment" <=> text_type = "deployment"
            /\ rich_type = "test" <=> text_type = "test"
            /\ rich_type = "unknown" <=> text_type \in {"generic", None}
            /\ BuiltFor(ui) = rich_type
            /\ text_type = "deployment" =>
                  /\ Shown(ui, "Total Deployments") = ToString(summary.total)
                  /\ Shown(ui, "Successful") = ToString(summary.successes)
                  /\ Shown(ui, "Failed") = ToString(summary.failures)
                  /\ Shown(ui, "Success Rate") = summary.success_rate
            /\ text_type = "test" =>
                  /\ Shown(ui, "Test Runs") = ToString(summary.test_runs)
                  /\ Shown(ui, "Total Tests") = ToString(summary.total_tests)
                  /\ Shown(ui, "Passed") = ToString(summary.passed)
                  /\ Shown(ui, "Failed") = ToString(summary.failed)
                  /\ Shown(ui, "Pass Rate") = summary.pass_rate

\* both variants answered a list whose first row has deploy_result and
\* tests_passed, and a pending deployment after it
C29_Witness ==
    /\ BothAnswered
    /\ hit.results = << DeployWithTests, DeployPending, DeployFail >>
    /\ execOut.value.summary.type = "deployment"
    /\ BuiltFor(uiOut.value) = "deployment"
    /\ Shown(uiOut.value, "Failed") = "1"
    /\ Shown(uiOut.value, "Success Rate") = "33.3%"
====
